---- MODULE Spec2Model ----
(***************************************************************************)
(* Vital Call: the scene state store (storage.ts), the App's state         *)
(* transitions (App.tsx) and the export pipeline (exporters.ts).           *)
(*                                                                         *)
(* Encoding of JavaScript values                                           *)
(*   - a string whose characters matter (names, units, notes) is a         *)
(*     sequence of one-character strings; ids and enum members are TLA+    *)
(*     strings;                                                            *)
(*   - an optional field is a sequence of length <= 1: <<>> when the       *)
(*     property reads as undefined (missing key or key holding undefined,  *)
(*     which JSON.stringify drops), <<x>> when it holds x;                 *)
(*   - null (ids) is the string "null";                                    *)
(*   - a threshold number is [t, n] with t = "num" (finite n), "nan"       *)
(*     (Number("abc")) or "null" (what JSON.parse returns for a            *)
(*     serialized NaN).                                                    *)
(***************************************************************************)
EXTENDS Integers, Sequences, FiniteSets, TLC

VARIABLES storage, state, mounted, now, nextId, exp, api, hist, alerts, dialog, ret

vars == <<storage, state, mounted, now, nextId, exp, api, hist, alerts, dialog, ret>>

(***************************************************************************)
(* Bounds of the model                                                     *)
(***************************************************************************)
\* handler calls (and clock ticks) explored after the page is first opened
MaxOps == 4
\* loads explored when the storage API is driven directly
MaxLoads == 2
\* clock ticks explored when the storage API is driven directly
MaxTime == 2

(***************************************************************************)
(* Basic values                                                            *)
(***************************************************************************)
Null == "null"
Undefined == <<>>
Some(x) == <<x>>
IsDefined(o) == Len(o) = 1
Val(o) == o[1]

Num(n) == [t |-> "num", n |-> n]
NaN == [t |-> "nan", n |-> 0]
JsonNull == [t |-> "null", n |-> 0]

Range(s) == {s[i] : i \in 1..Len(s)}

\* Array.prototype.map
MapSeq(s, F(_)) == [i \in 1..Len(s) |-> F(s[i])]

(***************************************************************************)
(* Strings as character sequences                                          *)
(***************************************************************************)
IsSpace(c) == c = " "

RECURSIVE TrimLeft(_)
TrimLeft(s) == IF s # <<>> /\ IsSpace(Head(s)) THEN TrimLeft(Tail(s)) ELSE s

RECURSIVE TrimRight(_)
TrimRight(s) ==
  IF s # <<>> /\ IsSpace(s[Len(s)]) THEN TrimRight(SubSeq(s, 1, Len(s) - 1)) ELSE s

\* mutant of Trim: the string is taken as typed
Trim_AsTyped(s) == s

\* String.prototype.trim
Trim(s) == TrimRight(TrimLeft(s))

\* s.split(/\s+/).filter(Boolean): the maximal runs of non-space characters
RECURSIVE SplitWs(_, _)
SplitWs(s, cur) ==
  IF s = <<>> THEN (IF cur = <<>> THEN <<>> ELSE <<cur>>)
  ELSE IF IsSpace(Head(s))
       THEN (IF cur = <<>> THEN <<>> ELSE <<cur>>) \o SplitWs(Tail(s), <<>>)
       ELSE SplitWs(Tail(s), Append(cur, Head(s)))

\* mutant of JoinSp: only the first of the parts is kept
JoinSp_FirstOnly(parts) == IF parts = <<>> THEN <<>> ELSE parts[1]

\* parts.join(' ')
RECURSIVE JoinSp(_)
JoinSp(parts) ==
  IF parts = <<>> THEN <<>>
  ELSE IF Len(parts) = 1 THEN parts[1]
  ELSE parts[1] \o <<" ">> \o JoinSp(Tail(parts))

(***************************************************************************)
(* storage.ts                                                              *)
(***************************************************************************)
KEY_V2 == "v2"
KEY_V1 == "v1"

ThresholdKeys ==
  {"hrHigh", "hrLow", "rrHigh", "rrLow", "spo2Low",
   "bpSysHigh", "bpSysLow", "bpDiaHigh", "bpDiaLow", "tempHighF"}

DEFAULT_SETTINGS ==
  [theme |-> "light",
   thresholds |->
     [hrHigh |-> Num(100), hrLow |-> Num(50), rrHigh |-> Num(30), rrLow |-> Num(8),
      spo2Low |-> Num(92), bpSysHigh |-> Num(180), bpSysLow |-> Num(90),
      bpDiaHigh |-> Num(110), bpDiaLow |-> Num(60), tempHighF |-> Num(101)]]

\* the state returned at storage.ts:72 and :74
EmptyState == [currentSceneId |-> Null, scenes |-> <<>>, settings |-> DEFAULT_SETTINGS]

\* --- what localStorage holds under one key -------------------------------
\* kind: "absent" (getItem returns null), "empty" (the empty string),
\*       "garbage" (text JSON.parse rejects), "json" (text JSON.parse accepts,
\*       doc being the parsed value).
NoDoc == [truthy |-> FALSE]
Absent == [kind |-> "absent", doc |-> NoDoc]
EmptyText == [kind |-> "empty", doc |-> NoDoc]
Garbage == [kind |-> "garbage", doc |-> NoDoc]
Json(d) == [kind |-> "json", doc |-> d]

\* `if (raw)`: a stored string is truthy unless it is empty
RawTruthy(blob) == blob.kind \in {"garbage", "json"}

\* JSON.parse(raw): throws SyntaxError on text that is not JSON
JsonParse(blob) == [threw |-> blob.kind # "json", doc |-> blob.doc]

\* JSON.stringify of a number: a non-finite number is written as null
StringifyNum(x) == IF x.t = "num" THEN x ELSE JsonNull

StringifySettings(s) ==
  [theme |-> s.theme,
   thresholds |-> [k \in DOMAIN s.thresholds |-> StringifyNum(s.thresholds[k])]]

\* mutant of JsonStringify: the settings are left out of the serialized state
JsonStringify_DropsSettings(s) ==
  Json([truthy |-> TRUE, scenesIsArray |-> TRUE,
        currentSceneId |-> s.currentSceneId,
        scenes |-> s.scenes,
        settings |-> Undefined])

\* JSON.stringify(state): the document JSON.parse gives back for the text
JsonStringify(s) ==
  Json([truthy |-> TRUE, scenesIsArray |-> TRUE,
        currentSceneId |-> s.currentSceneId,
        scenes |-> s.scenes,
        settings |-> Some(StringifySettings(s.settings))])

\* mutant of saveState: nothing is written under the current-schema key
saveState_NotPersisted(st, s) == st

\* localStorage.setItem(KEY_V2, JSON.stringify(state))
saveState(st, s) == [st EXCEPT ![KEY_V2] = JsonStringify(s)]

\* mutant of clearAll: the legacy key is left in place
clearAll_KeepsLegacy(st) == [st EXCEPT ![KEY_V2] = Absent]

\* localStorage.removeItem of both keys
clearAll(st) == [st EXCEPT ![KEY_V2] = Absent, ![KEY_V1] = Absent]

\* mutant of StatusOk: every status is accepted
StatusOk_Any(status) == TRUE

StatusOk(status) == status \in {Some("duty"), Some("rehab"), Some("transport")}

\* one element of migrateFirefighters' map
migrateOne(f) ==
  IF f.hasFirst /\ f.hasLast
  THEN [id |-> f.id, name |-> f.name, firstName |-> f.firstName, lastName |-> f.lastName,
        unit |-> f.unit, status |-> IF StatusOk(f.status) THEN f.status ELSE Undefined]
  ELSE LET name == Trim(IF IsDefined(f.name) THEN Val(f.name) ELSE <<>>)
           parts == SplitWs(name, <<>>)
       IN [id |-> f.id, name |-> Undefined,
           firstName |-> IF parts = <<>> THEN <<>> ELSE parts[1],
           lastName |-> IF parts = <<>> THEN <<>> ELSE JoinSp(Tail(parts)),
           unit |-> f.unit, status |-> Undefined]

migrateFirefighters(firefighters) == MapSeq(firefighters, migrateOne)

Str_Current_Scene == <<"C", "u", "r", "r", "e", "n", "t", " ", "S", "c", "e", "n", "e">>

\* mutant of MigratedScene: the legacy entries are carried over last to first
MigratedScene_Reversed(v1, t) ==
  [id |-> "scene_migrated", name |-> Str_Current_Scene, createdAt |-> t, updatedAt |-> t,
   firefighters |-> migrateFirefighters(v1.firefighters),
   selectedFirefighterId |->
     IF v1.selectedFirefighterId = "undefined" THEN Null ELSE v1.selectedFirefighterId,
   vitals |-> [i \in 1..Len(v1.vitals) |-> v1.vitals[Len(v1.vitals) + 1 - i]]]

\* the scene built at storage.ts:57-65
MigratedScene(v1, t) ==
  [id |-> "scene_migrated", name |-> Str_Current_Scene, createdAt |-> t, updatedAt |-> t,
   firefighters |-> migrateFirefighters(v1.firefighters),
   selectedFirefighterId |->
     IF v1.selectedFirefighterId = "undefined" THEN Null ELSE v1.selectedFirefighterId,
   vitals |-> v1.vitals]

\* the state returned for a valid current-schema document (storage.ts:44-47)
FromV2(doc) ==
  [currentSceneId |-> doc.currentSceneId, scenes |-> doc.scenes,
   settings |-> IF IsDefined(doc.settings) THEN Val(doc.settings) ELSE DEFAULT_SETTINGS]

LoadResult(s, st, m) == [state |-> s, storage |-> st, migrated |-> m]

\* the legacy branch of loadState (storage.ts:51-72)
loadLegacy(st, t) ==
  LET rawV1 == st[KEY_V1]
      p == JsonParse(rawV1)
      v1 == p.doc
  IN IF ~RawTruthy(rawV1) THEN LoadResult(EmptyState, st, FALSE)
     ELSE IF p.threw THEN LoadResult(EmptyState, st, FALSE)
     ELSE IF v1.truthy /\ v1.firefightersIsArray /\ v1.vitalsIsArray
     THEN IF ~v1.elementsAreObjects
          THEN LoadResult(EmptyState, st, FALSE)
          ELSE LET next == [currentSceneId |-> "scene_migrated",
                            scenes |-> <<MigratedScene(v1, t)>>,
                            settings |-> DEFAULT_SETTINGS]
               IN LoadResult(next, saveState(st, next), TRUE)
     ELSE LoadResult(EmptyState, st, FALSE)

\* loadState(): the returned state, the storage it leaves, whether it migrated
loadState(st, t) ==
  LET raw == st[KEY_V2]
      p == JsonParse(raw)
  IN IF RawTruthy(raw) /\ p.threw THEN LoadResult(EmptyState, st, FALSE)
     ELSE IF RawTruthy(raw) /\ p.doc.truthy /\ p.doc.scenesIsArray
     THEN LoadResult(FromV2(p.doc), st, FALSE)
     ELSE loadLegacy(st, t)

(***************************************************************************)
(* Persisted documents the program versions can have written, and corrupt  *)
(* ones                                                                    *)
(***************************************************************************)
Str_Jane_Smith == <<"J", "a", "n", "e", " ", "S", "m", "i", "t", "h">>
Str_Cher == <<"C", "h", "e", "r">>
Str_Ann == <<"A", "n", "n">>
Str_Lee == <<"L", "e", "e">>
Str_E1 == <<"E", "1">>
Str_Drill == <<"D", "r", "i", "l", "l">>
Str_Alpha == <<"A", "l", "p", "h", "a">>
Str_Scene == <<"S", "c", "e", "n", "e", " ">>

Entry(id, ffId, ts, hr, rr, notes) ==
  [id |-> id, firefighterId |-> ffId, timestamp |-> ts, hr |-> hr, rr |-> rr,
   spo2 |-> Undefined, bpSys |-> Undefined, bpDia |-> Undefined, tempF |-> Undefined,
   notes |-> notes]

\* a roster record as the first program version wrote it: { id, name, unit }
LegacyNamed(id, name, unit) ==
  [id |-> id, hasFirst |-> FALSE, hasLast |-> FALSE, name |-> Some(name),
   firstName |-> <<>>, lastName |-> <<>>, unit |-> unit, status |-> Undefined]

\* a roster record as the single-scene App.tsx wrote it: { id, firstName, lastName, unit }
LegacySplit(id, firstName, lastName, unit, status) ==
  [id |-> id, hasFirst |-> TRUE, hasLast |-> TRUE, name |-> Undefined,
   firstName |-> firstName, lastName |-> lastName, unit |-> unit, status |-> status]

V1Doc(ffs, sel, vitals) ==
  [truthy |-> TRUE, firefightersIsArray |-> TRUE, vitalsIsArray |-> TRUE,
   elementsAreObjects |-> TRUE,
   firefighters |-> ffs, selectedFirefighterId |-> sel, vitals |-> vitals]

\* two firefighters keyed by name, entries of both at the same timestamp
LegacyA ==
  V1Doc(<<LegacyNamed("f1", Str_Jane_Smith, Undefined), LegacyNamed("f2", Str_Cher, Some(Str_E1))>>,
        "f2",
        <<Entry("e1", "f1", 0, Some(80), Some(16), Undefined),
          Entry("e2", "f2", 0, Some(120), Undefined, Some(Str_E1))>>)

\* one firefighter keyed by firstName/lastName
LegacyB ==
  V1Doc(<<LegacySplit("f3", Str_Ann, Str_Lee, Undefined, Undefined)>>, "f3",
        <<Entry("e4", "f3", 0, Some(60), Undefined, Undefined)>>)

Str_Mary_Ann_Lee ==
  <<" ", "M", "a", "r", "y", " ", " ", "A", "n", "n", " ", " ", " ", "L", "e", "e", " ">>
Str_Mary == <<"M", "a", "r", "y">>
Str_Ann_Lee == <<"A", "n", "n", " ", "L", "e", "e">>
Str_Smith == <<"S", "m", "i", "t", "h">>
Str_Jane == <<"J", "a", "n", "e">>

\* records of every shape: a name of three tokens with stray spaces, an empty name, no
\* name at all, a name with only firstName beside it, and statuses inside and outside
\* the enum on records of both shapes
LegacyC ==
  V1Doc(<<LegacyNamed("f4", Str_Mary_Ann_Lee, Undefined),
          LegacyNamed("f5", <<>>, Some(Str_E1)),
          [LegacyNamed("f6", <<>>, Undefined) EXCEPT !.name = Undefined],
          [LegacyNamed("f7", Str_Jane_Smith, Undefined) EXCEPT
             !.hasFirst = TRUE, !.firstName = Str_Ann, !.status = Some("resting")],
          [LegacyNamed("f8", Str_Cher, Undefined) EXCEPT !.status = Some("duty")],
          LegacySplit("f9", Str_Ann, Str_Lee, Undefined, Some("resting")),
          LegacySplit("f10", Str_Ann, <<>>, Some(Str_E1), Some("transport"))>>,
        "f4", <<>>)

\* what the single-scene App.tsx persists on a fresh device and after reset
LegacyEmpty == V1Doc(<<>>, Null, <<>>)

\* parseable documents of the wrong shape
JsonNullDoc == NoDoc
V2NoScenes == [truthy |-> TRUE, scenesIsArray |-> FALSE]
V1NoRoster == [truthy |-> TRUE, firefightersIsArray |-> FALSE, vitalsIsArray |-> TRUE]
V1BadElements ==
  [truthy |-> TRUE, firefightersIsArray |-> TRUE, vitalsIsArray |-> TRUE,
   elementsAreObjects |-> FALSE]

Scene(id, name, t, ffs, sel, vitals) ==
  [id |-> id, name |-> name, createdAt |-> t, updatedAt |-> t, firefighters |-> ffs,
   selectedFirefighterId |-> sel, vitals |-> vitals]

Firefighter(id, firstName, lastName, unit, status) ==
  [id |-> id, name |-> Undefined, firstName |-> firstName, lastName |-> lastName,
   unit |-> unit, status |-> status]

\* a current-schema document written before settings existed
V2NoSettings ==
  [truthy |-> TRUE, scenesIsArray |-> TRUE, currentSceneId |-> "s9",
   scenes |-> <<Scene("s9", Str_Drill, 0,
                      <<Firefighter("f9", Str_Ann, <<>>, Undefined, Some("rehab"))>>, "f9",
                      <<Entry("e9", "f9", 0, Some(90), Undefined, Undefined)>>)>>,
   settings |-> Undefined]

\* a current-schema document saved with dark theme and a threshold edited to NaN
V2Custom ==
  [truthy |-> TRUE, scenesIsArray |-> TRUE, currentSceneId |-> Null,
   scenes |-> <<Scene("s9", Str_Drill, 0, <<>>, Null, <<>>)>>,
   settings |-> Some([theme |-> "dark",
                      thresholds |-> [DEFAULT_SETTINGS.thresholds EXCEPT !.hrHigh = JsonNull]])]

\* a current-schema document whose settings hold a theme and no thresholds
V2ThemeOnly ==
  [truthy |-> TRUE, scenesIsArray |-> TRUE, currentSceneId |-> Null,
   scenes |-> <<>>,
   settings |-> Some([theme |-> "dark", thresholds |-> Undefined])]

V2Blobs ==
  {Absent, EmptyText, Garbage, Json(JsonNullDoc), Json(V2NoScenes), Json(V2NoSettings),
   Json(V2Custom), Json(V2ThemeOnly)}

V1Blobs ==
  {Absent, EmptyText, Garbage, Json(JsonNullDoc), Json(V1NoRoster), Json(V1BadElements),
   Json(LegacyA), Json(LegacyB), Json(LegacyC), Json(LegacyEmpty)}

Storage(v2, v1) == [v2 |-> v2, v1 |-> v1]

(***************************************************************************)
(* History kept for the properties (not program state)                     *)
(***************************************************************************)
Hist0 ==
  [loads |-> 0, migrations |-> 0, pre |-> Storage(Absent, Absent), migrated |-> FALSE,
   saved |-> FALSE, first |-> EmptyState, roundTrip |-> FALSE, ops |-> 0]

\* the history after a load that found storage st and returned r
HistLoad(h, st, r) ==
  [loads |-> h.loads + 1,
   migrations |-> h.migrations + (IF r.migrated THEN 1 ELSE 0),
   pre |-> st, migrated |-> r.migrated,
   saved |-> FALSE, first |-> h.first, roundTrip |-> h.saved, ops |-> h.ops]

\* no export running: the value of exp before exportAll is called. scene and at are
\* the currentScene and the Date.now() the running call started with, outcome is how
\* its share attempt settled
Idle ==
  [pc |-> "idle", baseName |-> <<>>, csv |-> <<>>, pdf |-> <<>>, shared |-> FALSE,
   downloads |-> <<>>, scene |-> <<>>, at |-> 0, outcome |-> "none"]


(***************************************************************************)
(* SpecStorage: the storage API driven directly, from every combination of *)
(* contents of the two keys                                                *)
\* window.alert / window.confirm: the dialog the latest step left behind it: none, the
\* message of an alert(), or the confirm() prompt the user answered with Cancel
NoDialog == "none"

NameRequired == "alert: Enter at least a first name or last name."

NoScene == "alert: Start a new scene first."

NoSelection == "alert: Add/select a firefighter first."

Declined == "confirm: cancelled"

\* no call has returned a value yet
NoResult == <<>>

(***************************************************************************)
StInit ==
  /\ storage \in {Storage(a, b) : a \in V2Blobs, b \in V1Blobs}
  /\ state = EmptyState
  /\ mounted = FALSE
  /\ now = 1
  /\ nextId = 1
  /\ exp = Idle
  /\ api = "init"
  /\ hist = Hist0
  /\ alerts = <<>>
  /\ dialog = NoDialog
  /\ ret = NoResult

\* s = loadState()
StLoad ==
  /\ hist.loads < MaxLoads
  /\ LET r == loadState(storage, now)
     IN /\ state' = r.state
        /\ storage' = r.storage
        /\ hist' = HistLoad(hist, storage, r)
  /\ api' = "load"
  /\ UNCHANGED <<mounted, now, nextId, exp, alerts, dialog, ret>>

\* saveState(s) with s the state the last load returned
StSave ==
  /\ hist.loads > 0
  /\ api = "load"
  /\ storage' = saveState(storage, state)
  /\ hist' = [hist EXCEPT !.saved = TRUE, !.first = state, !.roundTrip = FALSE]
  /\ api' = "save"
  /\ UNCHANGED <<state, mounted, now, nextId, exp, alerts, dialog, ret>>

\* clearAll()
StClearAll ==
  /\ api # "clearAll"
  /\ storage' = clearAll(storage)
  /\ hist' = [hist EXCEPT !.saved = FALSE, !.roundTrip = FALSE]
  /\ api' = "clearAll"
  /\ UNCHANGED <<state, mounted, now, nextId, exp, alerts, dialog, ret>>

\* time passes (Date.now() grows)
StTick ==
  /\ now < MaxTime
  /\ now' = now + 1
  /\ UNCHANGED <<storage, state, mounted, nextId, exp, api, hist, alerts, dialog, ret>>

StNext == StLoad \/ StSave \/ StClearAll \/ StTick

SpecStorage == StInit /\ [][StNext]_vars

(***************************************************************************)
(* App.tsx (multi-scene): derived values                                   *)
(***************************************************************************)
\* nanoid(): a fresh identifier
nanoid(n) == "n" \o ToString(n)

\* index of the first element of s with the given id, 0 when none (Array.find)
RECURSIVE FindIndex(_, _, _)
FindIndex(s, id, i) ==
  IF i > Len(s) THEN 0 ELSE IF s[i].id = id THEN i ELSE FindIndex(s, id, i + 1)

Ids(s) == {s[i].id : i \in 1..Len(s)}

\* currentScene: Some(scene) or Undefined (null)
currentScene(s) ==
  IF s.currentSceneId = Null THEN Undefined
  ELSE LET i == FindIndex(s.scenes, s.currentSceneId, 1)
       IN IF i = 0 THEN Undefined ELSE Some(s.scenes[i])

\* selected: the selected firefighter of the current scene, or Undefined (null)
selected(s) ==
  LET cs == currentScene(s)
  IN IF ~IsDefined(cs) THEN Undefined
     ELSE LET i == FindIndex(Val(cs).firefighters, Val(cs).selectedFirefighterId, 1)
          IN IF i = 0 THEN Undefined ELSE Some(Val(cs).firefighters[i])

\* mutant of updateScene: fn is applied to every scene of the list
updateScene_EveryScene(s, sceneId, fn, t) ==
  [s EXCEPT !.scenes = MapSeq(s.scenes, LAMBDA sc : [fn[sc] EXCEPT !.updatedAt = t])]

\* mutant of updateScene: updatedAt keeps the value fn returns
updateScene_KeepsStamp(s, sceneId, fn, t) ==
  [s EXCEPT !.scenes = MapSeq(s.scenes, LAMBDA sc : IF sc.id = sceneId THEN fn[sc] ELSE sc)]

\* updateScene: fn applied to the scene with that id, its updatedAt set to Date.now()
\* (fn is given as a function on the scenes of s)
updateScene(s, sceneId, fn, t) ==
  [s EXCEPT !.scenes =
     MapSeq(s.scenes, LAMBDA sc : IF sc.id = sceneId THEN [fn[sc] EXCEPT !.updatedAt = t] ELSE sc)]

\* x placed after every element that does not sort after it (a stable insertion)
RECURSIVE InsertTs(_, _, _)
InsertTs(s, x, asc) ==
  IF s = <<>> THEN <<x>>
  ELSE IF (asc /\ Head(s).timestamp <= x.timestamp) \/ (~asc /\ Head(s).timestamp >= x.timestamp)
       THEN <<Head(s)>> \o InsertTs(Tail(s), x, asc)
       ELSE <<x>> \o s

\* vitals.slice().sort by timestamp, ascending or descending; Array.prototype.sort is stable
RECURSIVE SortTs(_, _)
SortTs(s, asc) ==
  IF s = <<>> THEN <<>> ELSE InsertTs(SortTs(SubSeq(s, 1, Len(s) - 1), asc), s[Len(s)], asc)

\* selectedVitals: the entries of the selected firefighter, newest first
selectedVitals(s) ==
  IF ~IsDefined(currentScene(s)) \/ ~IsDefined(selected(s)) THEN <<>>
  ELSE SortTs(SelectSeq(Val(currentScene(s)).vitals,
                        LAMBDA v : v.firefighterId = Val(selected(s)).id), FALSE)

(***************************************************************************)
(* App.tsx: getAlerts                                                      *)
(***************************************************************************)
AlertKeys == {"hr", "rr", "spo2", "bp", "temp"}

\* x > b and x < b for a number x and a threshold b: every comparison with NaN is
\* false, and null converts to 0
JsGt(x, b) == IF b.t = "nan" THEN FALSE ELSE IF b.t = "null" THEN x > 0 ELSE x > b.n
JsLt(x, b) == IF b.t = "nan" THEN FALSE ELSE IF b.t = "null" THEN x < 0 ELSE x < b.n

\* mutant of hrAlert: an absent heart rate is read as 0
hrAlert_AbsentAsZero(v, t) ==
  LET hr == IF IsDefined(v.hr) THEN Val(v.hr) ELSE 0
  IN JsGt(hr, t.hrHigh) \/ JsLt(hr, t.hrLow)

\* mutant of hrAlert: the bounds are inclusive
hrAlert_Inclusive(v, t) ==
  IsDefined(v.hr) /\ ~(JsLt(Val(v.hr), t.hrHigh) /\ JsGt(Val(v.hr), t.hrLow))

\* typeof v.hr === 'number' && (v.hr > t.hrHigh || v.hr < t.hrLow)
hrAlert(v, t) == IsDefined(v.hr) /\ (JsGt(Val(v.hr), t.hrHigh) \/ JsLt(Val(v.hr), t.hrLow))

rrAlert(v, t) == IsDefined(v.rr) /\ (JsGt(Val(v.rr), t.rrHigh) \/ JsLt(Val(v.rr), t.rrLow))

\* mutant of spo2Alert: the bound is inclusive
spo2Alert_Inclusive(v, t) == IsDefined(v.spo2) /\ ~JsGt(Val(v.spo2), t.spo2Low)

spo2Alert(v, t) == IsDefined(v.spo2) /\ JsLt(Val(v.spo2), t.spo2Low)

tempAlert(v, t) == IsDefined(v.tempF) /\ JsGt(Val(v.tempF), t.tempHighF)

\* mutant of bpAlert: judged only when both sub-values are present
bpAlert_NeedsBoth(v, t) ==
  /\ IsDefined(v.bpSys) /\ IsDefined(v.bpDia)
  /\ \/ JsGt(Val(v.bpSys), t.bpSysHigh) \/ JsLt(Val(v.bpSys), t.bpSysLow)
     \/ JsGt(Val(v.bpDia), t.bpDiaHigh) \/ JsLt(Val(v.bpDia), t.bpDiaLow)

bpAlert(v, t) ==
  \/ IsDefined(v.bpSys) /\ (JsGt(Val(v.bpSys), t.bpSysHigh) \/ JsLt(Val(v.bpSys), t.bpSysLow))
  \/ IsDefined(v.bpDia) /\ (JsGt(Val(v.bpDia), t.bpDiaHigh) \/ JsLt(Val(v.bpDia), t.bpDiaLow))

\* getAlerts(v, t): the Set of alert keys
getAlerts(v, t) ==
  {k \in AlertKeys :
     \/ k = "hr" /\ hrAlert(v, t)
     \/ k = "rr" /\ rrAlert(v, t)
     \/ k = "spo2" /\ spo2Alert(v, t)
     \/ k = "temp" /\ tempAlert(v, t)
     \/ k = "bp" /\ bpAlert(v, t)}

\* mutant of Rendered: the thresholds are the compiled-in defaults
Rendered_CompiledIn(s) ==
  MapSeq(selectedVitals(s),
         LAMBDA v : [id |-> v.id, alerts |-> getAlerts(v, DEFAULT_SETTINGS.thresholds)])

\* the history list as rendered: getAlerts(v, state.settings.thresholds) of every
\* entry of selectedVitals
Rendered(s) ==
  MapSeq(selectedVitals(s), LAMBDA v : [id |-> v.id, alerts |-> getAlerts(v, s.settings.thresholds)])

\* clampNum: a form field to an optional number
clampNum(v) == IF v.kind = "num" THEN Some(v.n) ELSE Undefined

(***************************************************************************)
(* App.tsx: the functional updates the handlers pass to setState           *)
(***************************************************************************)
addFirefighterFn(sc, ff) ==
  [sc EXCEPT !.firefighters = Append(sc.firefighters, ff), !.selectedFirefighterId = ff.id]

editFirefighterFn(sc, id, firstName, lastName, unit, status) ==
  [sc EXCEPT !.firefighters =
     MapSeq(sc.firefighters,
            LAMBDA f : IF f.id = id
                       THEN [f EXCEPT !.firstName = firstName, !.lastName = lastName,
                                      !.unit = unit, !.status = status]
                       ELSE f)]

setStatusFn(sc, id, status) ==
  [sc EXCEPT !.firefighters =
     MapSeq(sc.firefighters, LAMBDA f : IF f.id = id THEN [f EXCEPT !.status = Some(status)] ELSE f)]

selectFn(sc, id) == [sc EXCEPT !.selectedFirefighterId = id]

\* mutant of removeFirefighterFn: the entries are filtered on their own id
removeFirefighterFn_WrongField(sc, id) ==
  LET remaining == SelectSeq(sc.firefighters, LAMBDA f : f.id # id)
      vitals == SelectSeq(sc.vitals, LAMBDA v : v.id # id)
      selectedFirefighterId ==
        IF sc.selectedFirefighterId = id
        THEN (IF remaining = <<>> THEN Null ELSE remaining[1].id)
        ELSE sc.selectedFirefighterId
  IN [sc EXCEPT !.firefighters = remaining, !.vitals = vitals,
                !.selectedFirefighterId = selectedFirefighterId]

\* mutant of removeFirefighterFn: the entries of the removed firefighter are kept
removeFirefighterFn_KeepsVitals(sc, id) ==
  LET remaining == SelectSeq(sc.firefighters, LAMBDA f : f.id # id)
  IN [sc EXCEPT !.firefighters = remaining,
                !.selectedFirefighterId =
                  IF sc.selectedFirefighterId = id
                  THEN (IF remaining = <<>> THEN Null ELSE remaining[1].id)
                  ELSE sc.selectedFirefighterId]

\* mutant of removeFirefighterFn: the selection is not redirected
removeFirefighterFn_KeepsSelection(sc, id) ==
  [sc EXCEPT !.firefighters = SelectSeq(sc.firefighters, LAMBDA f : f.id # id),
             !.vitals = SelectSeq(sc.vitals, LAMBDA v : v.firefighterId # id)]

removeFirefighterFn(sc, id) ==
  LET remaining == SelectSeq(sc.firefighters, LAMBDA f : f.id # id)
      vitals == SelectSeq(sc.vitals, LAMBDA v : v.firefighterId # id)
      selectedFirefighterId ==
        IF sc.selectedFirefighterId = id
        THEN (IF remaining = <<>> THEN Null ELSE remaining[1].id)
        ELSE sc.selectedFirefighterId
  IN [sc EXCEPT !.firefighters = remaining, !.vitals = vitals,
                !.selectedFirefighterId = selectedFirefighterId]

\* mutant of submitVitalsFn: the new entry is put first
submitVitalsFn_Prepends(sc, entry) == [sc EXCEPT !.vitals = <<entry>> \o sc.vitals]

submitVitalsFn(sc, entry) == [sc EXCEPT !.vitals = Append(sc.vitals, entry)]

clearSceneFn(sc) ==
  [sc EXCEPT !.firefighters = <<>>, !.selectedFirefighterId = Null, !.vitals = <<>>]

\* mutant of deleteSceneFn: the active pointer is left as it was
deleteSceneFn_KeepsPointer(s, sceneId) ==
  [s EXCEPT !.scenes = SelectSeq(s.scenes, LAMBDA x : x.id # sceneId)]

deleteSceneFn(s, sceneId) ==
  LET scenes == SelectSeq(s.scenes, LAMBDA x : x.id # sceneId)
      currentSceneId ==
        IF s.currentSceneId = sceneId
        THEN (IF scenes = <<>> THEN Null ELSE scenes[1].id)
        ELSE s.currentSceneId
  IN [s EXCEPT !.scenes = scenes, !.currentSceneId = currentSceneId]

\* mutant of startNewSceneFn: the new scene takes the place of the list
startNewSceneFn_Replaces(s, scene) ==
  [s EXCEPT !.scenes = <<scene>>, !.currentSceneId = scene.id]

startNewSceneFn(s, scene) ==
  [s EXCEPT !.scenes = <<scene>> \o s.scenes, !.currentSceneId = scene.id]

\* Number(e.target.value || 0) of a threshold input
thresholdValue(v) ==
  IF v.kind = "blank" THEN Num(0) ELSE IF v.kind = "num" THEN Num(v.n) ELSE NaN

setThresholdFn(settings, k, v) ==
  [settings EXCEPT !.thresholds = [settings.thresholds EXCEPT ![k] = thresholdValue(v)]]

setThemeFn(settings, checked) ==
  [settings EXCEPT !.theme = IF checked THEN "dark" ELSE "light"]

(***************************************************************************)
(* Inputs the user can supply                                              *)
(***************************************************************************)
Blank == [kind |-> "blank", n |-> 0]
NotANumber == [kind |-> "nan", n |-> 0]
Typed(n) == [kind |-> "num", n |-> n]

FfForms ==
  {[firstName |-> Str_Ann, lastName |-> <<" ">> \o Str_Lee, unit |-> <<>>, status |-> "rehab"],
   [firstName |-> <<" ">>, lastName |-> <<>>, unit |-> <<>>, status |-> ""]}

\* timeLocal: "" (blank), "invalid" (new Date(..).getTime() is NaN) or "past" (time 0)
VitalsForms ==
  {[timeLocal |-> "invalid", hr |-> Typed(130), rr |-> Blank, notes |-> <<" ">>],
   [timeLocal |-> "past", hr |-> NotANumber, rr |-> Typed(16), notes |-> <<" ">> \o Str_E1]}

SceneNameInputs == {Str_Alpha \o <<" ">>}

StatusInputs == {"rehab"}

\* the threshold inputs the user edits
EditedKeys == {"hrHigh"}

ThresholdInputs == {NotANumber}

(***************************************************************************)
(* App.tsx: the component and its handlers                                 *)
(***************************************************************************)
\* mutant of Commit: the effect does not run after the state changes
Commit_NoEffect(next) ==
  /\ hist.ops < MaxOps
  /\ state' = next
  /\ alerts' = Rendered(next)
  /\ hist' = [hist EXCEPT !.ops = hist.ops + 1]
  /\ dialog' = NoDialog
  /\ UNCHANGED storage

\* setState(next) followed by the render of the new state and by the effect
\* saveState(state) that the new state triggers
Commit(next) ==
  /\ hist.ops < MaxOps
  /\ state' = next
  /\ alerts' = Rendered(next)
  /\ storage' = saveState(storage, next)
  /\ hist' = [hist EXCEPT !.ops = hist.ops + 1]
  /\ dialog' = NoDialog

\* an event handler can start: the page is open and no click handler is about to end
Ready == mounted /\ exp.pc \in {"idle", "sharing"}

\* a handler that returns before any setState: no render, no effect
NoChange == dialog' = NoDialog /\ UNCHANGED <<state, storage, hist, alerts>>

\* a handler that returns after alert(message), or after confirm() answered false
Refused(shown) ==
  /\ hist.ops < MaxOps
  /\ hist' = [hist EXCEPT !.ops = hist.ops + 1]
  /\ dialog' = shown
  /\ UNCHANGED <<state, storage, alerts>>

\* App(): useState(() => loadState()), then the effect saveState(state)
Construct ==
  /\ LET r == loadState(storage, now)
     IN /\ state' = r.state
        /\ alerts' = Rendered(r.state)
        /\ storage' = saveState(r.storage, r.state)
        /\ hist' = [hist EXCEPT !.migrations = hist.migrations + (IF r.migrated THEN 1 ELSE 0),
                                !.migrated = r.migrated,
                                !.ops = IF mounted THEN hist.ops + 1 ELSE hist.ops]
  /\ mounted' = TRUE
  /\ exp' = Idle
  /\ dialog' = NoDialog
  /\ UNCHANGED <<now, nextId, api, ret>>

\* time passes while the page is open (Date.now() grows)
Tick ==
  /\ Ready
  /\ hist.ops < MaxOps
  /\ now' = now + 1
  /\ hist' = [hist EXCEPT !.ops = hist.ops + 1]
  /\ dialog' = NoDialog
  /\ UNCHANGED <<storage, state, mounted, nextId, exp, api, alerts, ret>>

\* the page is opened
AppMount == ~mounted /\ Construct

\* the page is reloaded: the component is constructed again from storage
Reload == mounted /\ hist.ops < MaxOps /\ Construct

updateCurrentScene(fn) ==
  IF state.currentSceneId = Null THEN NoChange
  ELSE Commit(updateScene(state, state.currentSceneId, fn, now))

\* saveFirefighter with ffModal = { mode, id } and ffForm = form
saveFirefighterOf(mode, id, form) ==
  LET firstName == Trim(form.firstName)
      lastName == Trim(form.lastName)
      unit == IF Trim(form.unit) = <<>> THEN Undefined ELSE Some(Trim(form.unit))
      status == IF form.status = "" THEN Undefined ELSE Some(form.status)
      ff == [id |-> nanoid(nextId), name |-> Undefined, firstName |-> firstName,
             lastName |-> lastName, unit |-> unit, status |-> status]
  IN /\ Ready
     /\ IF firstName = <<>> /\ lastName = <<>>
        THEN Refused(NameRequired) /\ UNCHANGED nextId
        ELSE IF ~IsDefined(currentScene(state))
        THEN Refused(NoScene) /\ UNCHANGED nextId
        ELSE IF mode = "add"
        THEN /\ updateCurrentScene([sc \in Range(state.scenes) |-> addFirefighterFn(sc, ff)])
             /\ nextId' = nextId + 1
        ELSE /\ updateCurrentScene(
                  [sc \in Range(state.scenes) |->
                     editFirefighterFn(sc, id, firstName, lastName, unit, status)])
             /\ UNCHANGED nextId
     /\ UNCHANGED <<mounted, now, exp, api, ret>>

\* the roster of the current scene, whose rows carry the edit/remove/select buttons
RosterIds == IF IsDefined(currentScene(state)) THEN Ids(Val(currentScene(state)).firefighters) ELSE {}

saveFirefighter ==
  \E form \in FfForms :
    \/ saveFirefighterOf("add", Null, form)
    \/ \E id \in RosterIds : saveFirefighterOf("edit", id, form)

\* the On duty / Rehab / Transport buttons of the selected firefighter
setStatusOf(status) ==
  /\ Ready
  /\ IsDefined(selected(state))
  /\ updateCurrentScene([sc \in Range(state.scenes) |-> setStatusFn(sc, Val(selected(state)).id, status)])
  /\ UNCHANGED <<mounted, now, nextId, exp, api, ret>>

setStatus == \E status \in StatusInputs : setStatusOf(status)

\* a click on the roster row of firefighter id
selectFirefighterOf(id) ==
  /\ Ready
  /\ updateCurrentScene([sc \in Range(state.scenes) |-> selectFn(sc, id)])
  /\ UNCHANGED <<mounted, now, nextId, exp, api, ret>>

selectFirefighter == \E id \in RosterIds : selectFirefighterOf(id)

\* mutant of removeFirefighterOf: the answer to the prompt is not looked at
removeFirefighterOf_Unasked(id, confirm) ==
  /\ Ready
  /\ IF id \notin RosterIds THEN NoChange
     ELSE updateCurrentScene([sc \in Range(state.scenes) |-> removeFirefighterFn(sc, id)])
  /\ UNCHANGED <<mounted, now, nextId, exp, api, ret>>

\* removeFirefighter(id), the user answering the confirm() prompt with `confirm`
removeFirefighterOf(id, confirm) ==
  /\ Ready
  /\ IF id \notin RosterIds THEN NoChange
     ELSE IF ~confirm THEN Refused(Declined)
     ELSE updateCurrentScene([sc \in Range(state.scenes) |-> removeFirefighterFn(sc, id)])
  /\ UNCHANGED <<mounted, now, nextId, exp, api, ret>>

removeFirefighter ==
  \E id \in RosterIds \cup {"gone"}, confirm \in BOOLEAN : removeFirefighterOf(id, confirm)

\* the entry submitVitals builds from the form
newEntry(form) ==
  LET notes == Trim(form.notes)
  IN [id |-> nanoid(nextId),
      firefighterId |-> Val(selected(state)).id,
      timestamp |-> IF form.timeLocal = "past" THEN 0 ELSE now,
      hr |-> clampNum(form.hr), rr |-> clampNum(form.rr),
      spo2 |-> Undefined, bpSys |-> Undefined, bpDia |-> Undefined, tempF |-> Undefined,
      notes |-> IF notes = <<>> THEN Undefined ELSE Some(notes)]

submitVitalsOf(form) ==
  /\ Ready
  /\ IF ~IsDefined(selected(state))
     THEN Refused(NoSelection) /\ UNCHANGED nextId
     ELSE /\ updateCurrentScene([sc \in Range(state.scenes) |-> submitVitalsFn(sc, newEntry(form))])
          /\ nextId' = nextId + 1
  /\ UNCHANGED <<mounted, now, exp, api, ret>>

submitVitals == \E form \in VitalsForms : submitVitalsOf(form)

clearCurrentSceneOf(confirm) ==
  /\ Ready
  /\ IF ~IsDefined(currentScene(state)) THEN NoChange
     ELSE IF ~confirm THEN Refused(Declined)
     ELSE updateCurrentScene([sc \in Range(state.scenes) |-> clearSceneFn(sc)])
  /\ UNCHANGED <<mounted, now, nextId, exp, api, ret>>

clearCurrentScene == \E confirm \in BOOLEAN : clearCurrentSceneOf(confirm)

deleteSceneOf(sceneId, confirm) ==
  /\ Ready
  /\ IF sceneId \notin Ids(state.scenes) THEN NoChange
     ELSE IF ~confirm THEN Refused(Declined)
     ELSE Commit(deleteSceneFn(state, sceneId))
  /\ UNCHANGED <<mounted, now, nextId, exp, api, ret>>

deleteScene ==
  \E sceneId \in Ids(state.scenes) \cup {"gone"}, confirm \in BOOLEAN :
    deleteSceneOf(sceneId, confirm)

startNewSceneOf(newSceneName) ==
  LET name == IF Trim(newSceneName) = <<>> THEN Str_Scene \o <<ToString(now)>>
              ELSE Trim(newSceneName)
      scene == Scene(nanoid(nextId), name, now, <<>>, Null, <<>>)
  IN /\ Ready
     /\ Commit(startNewSceneFn(state, scene))
     /\ nextId' = nextId + 1
     /\ UNCHANGED <<mounted, now, exp, api, ret>>

startNewScene == \E newSceneName \in SceneNameInputs : startNewSceneOf(newSceneName)

\* the Open button of a scene row
openSceneOf(sceneId) ==
  /\ Ready
  /\ Commit([state EXCEPT !.currentSceneId = sceneId])
  /\ UNCHANGED <<mounted, now, nextId, exp, api, ret>>

openScene == \E sceneId \in Ids(state.scenes) : openSceneOf(sceneId)

\* the Scenes button: back to the list of scenes
showScenes ==
  /\ Ready
  /\ IsDefined(currentScene(state))
  /\ Commit([state EXCEPT !.currentSceneId = Null])
  /\ UNCHANGED <<mounted, now, nextId, exp, api, ret>>

\* updateSettings from the theme checkbox and from a threshold input
updateSettings ==
  /\ Ready
  /\ \/ \E checked \in BOOLEAN :
          Commit([state EXCEPT !.settings = setThemeFn(state.settings, checked)])
     \/ \E k \in EditedKeys, v \in ThresholdInputs :
          Commit([state EXCEPT !.settings = setThresholdFn(state.settings, k, v)])
  /\ UNCHANGED <<mounted, now, nextId, exp, api, ret>>

(***************************************************************************)
(* SpecAlerts: the history list of one entry rendered under the settings,  *)
(* and re-rendered after each threshold edit                               *)
(***************************************************************************)
\* an entry of firefighter f1 with the six measurements given
Vitals(hr, rr, spo2, bpSys, bpDia, tempF) ==
  [id |-> "a1", firefighterId |-> "f1", timestamp |-> 0, hr |-> hr, rr |-> rr,
   spo2 |-> spo2, bpSys |-> bpSys, bpDia |-> bpDia, tempF |-> tempF, notes |-> Undefined]

NoVitals == Vitals(Undefined, Undefined, Undefined, Undefined, Undefined, Undefined)

\* entries with one measurement, at and next to the default bounds; entries with
\* both pressures; an entry with nothing and entries with everything
AlertEntries ==
  {NoVitals}
    \cup {[NoVitals EXCEPT !.hr = Some(x)] : x \in {0, 49, 50, 100, 101}}
    \cup {[NoVitals EXCEPT !.rr = Some(x)] : x \in {7, 8, 30, 31}}
    \cup {[NoVitals EXCEPT !.spo2 = Some(x)] : x \in {90, 91, 92, 100}}
    \cup {[NoVitals EXCEPT !.tempF = Some(x)] : x \in {101, 102}}
    \cup {[NoVitals EXCEPT !.bpSys = Some(x)] : x \in {89, 90, 180, 181}}
    \cup {[NoVitals EXCEPT !.bpDia = Some(x)] : x \in {59, 60, 110, 111}}
    \cup {[NoVitals EXCEPT !.bpSys = Some(x), !.bpDia = Some(y)] :
            x \in {120, 181}, y \in {59, 80}}
    \cup {Vitals(Some(80), Some(16), Some(98), Some(120), Some(80), Some(98)),
          Vitals(Some(130), Some(40), Some(85), Some(200), Some(120), Some(104))}

\* the thresholds the page starts with: the defaults, and the defaults with hrHigh
\* read back as null after a NaN was saved
AlertThresholds ==
  {DEFAULT_SETTINGS.thresholds, [DEFAULT_SETTINGS.thresholds EXCEPT !.hrHigh = JsonNull]}

\* what the user types into the threshold inputs
AlertEdits ==
  {<<"hrHigh", Typed(101)>>, <<"hrLow", Typed(49)>>, <<"rrHigh", NotANumber>>,
   <<"spo2Low", Typed(91)>>, <<"bpSysHigh", Typed(181)>>, <<"bpDiaLow", Blank>>,
   <<"tempHighF", Typed(102)>>}

AlertState(v, t) ==
  [currentSceneId |-> "s1",
   scenes |-> <<Scene("s1", Str_Drill, 0,
                      <<Firefighter("f1", Str_Ann, Str_Lee, Undefined, Undefined)>>, "f1",
                      <<v>>)>>,
   settings |-> [theme |-> "light", thresholds |-> t]]

AlInit ==
  /\ state \in {AlertState(v, t) : v \in AlertEntries, t \in AlertThresholds}
  /\ storage = saveState(Storage(Absent, Absent), state)
  /\ mounted = TRUE
  /\ now = 1
  /\ nextId = 1
  /\ exp = Idle
  /\ api = "init"
  /\ hist = Hist0
  /\ alerts = <<>>
  /\ dialog = NoDialog
  /\ ret = NoResult

\* the first render of the page
AlRender ==
  /\ api = "init"
  /\ alerts' = Rendered(state)
  /\ api' = "render"
  /\ UNCHANGED <<storage, state, mounted, now, nextId, exp, hist, dialog, ret>>

\* a threshold input changes: updateSettings, then the render of the new state
AlUpdateSettings ==
  /\ api # "init"
  /\ \E edit \in AlertEdits :
       Commit([state EXCEPT !.settings = setThresholdFn(state.settings, edit[1], edit[2])])
  /\ api' = "settings"
  /\ UNCHANGED <<mounted, now, nextId, exp, ret>>

AlNext == AlRender \/ AlUpdateSettings

SpecAlerts == AlInit /\ [][AlNext]_vars

(***************************************************************************)
(* exporters.ts                                                            *)
(***************************************************************************)
Str_Unknown == <<"U", "n", "k", "n", "o", "w", "n">>

\* new Map(firefighters.map((f) => [f.id, f])).get(id): the last firefighter with that id
RECURSIVE ffById(_, _)
ffById(firefighters, id) ==
  IF firefighters = <<>> THEN Undefined
  ELSE IF firefighters[Len(firefighters)].id = id THEN Some(firefighters[Len(firefighters)])
  ELSE ffById(SubSeq(firefighters, 1, Len(firefighters) - 1), id)

\* one row of exportCsv
csvRow(firefighters, v) ==
  LET f == ffById(firefighters, v.firefighterId)
  IN [time |-> v.timestamp,
      firefighter |-> IF IsDefined(f) /\ IsDefined(Val(f).name) THEN Val(Val(f).name) ELSE Str_Unknown,
      unit |-> IF IsDefined(f) /\ IsDefined(Val(f).unit) THEN Val(Val(f).unit) ELSE <<>>,
      hr |-> v.hr, rr |-> v.rr, spo2 |-> v.spo2, bpSys |-> v.bpSys, bpDia |-> v.bpDia,
      tempF |-> v.tempF,
      notes |-> IF IsDefined(v.notes) THEN Val(v.notes) ELSE <<>>]

\* mutant of exportCsv: only the entries whose firefighter is in the roster get a row
exportCsv_KnownOnly(firefighters, vitals) ==
  MapSeq(SortTs(SelectSeq(vitals, LAMBDA v : IsDefined(ffById(firefighters, v.firefighterId))),
                TRUE),
         LAMBDA v : csvRow(firefighters, v))

\* exportCsv: the rows handed to Papa.unparse
exportCsv(firefighters, vitals) ==
  MapSeq(SortTs(vitals, TRUE), LAMBDA v : csvRow(firefighters, v))

\* firefighters.slice().sort((a, b) => a.name.localeCompare(b.name)): the comparator
\* runs when there are two or more elements and raises a TypeError when a.name is
\* undefined
sortByNameThrows(firefighters) ==
  Len(firefighters) >= 2 /\ \E i \in 1..Len(firefighters) : ~IsDefined(firefighters[i].name)

\* the lines under a section header: 'No vitals recorded.' when the firefighter has no
\* entry, else one line per entry, followed by its wrapped notes when it has notes
RECURSIVE pdfLines(_)
pdfLines(list) ==
  IF list = <<>> THEN <<>>
  ELSE <<[kind |-> "entry", of |-> Head(list).id]>>
       \o (IF IsDefined(Head(list).notes) /\ Trim(Val(Head(list).notes)) # <<>>
           THEN <<[kind |-> "notes", of |-> Head(list).id]>>
           ELSE <<>>)
       \o pdfLines(Tail(list))

NoVitalsRecorded == <<[kind |-> "No vitals recorded.", of |-> Null]>>

\* one firefighter's section of exportPdf
pdfSection(f, vitals) ==
  LET list == SortTs(SelectSeq(vitals, LAMBDA v : v.firefighterId = f.id), FALSE)
  IN [id |-> f.id, header |-> f.name, unit |-> f.unit, entries |-> list,
      lines |-> IF list = <<>> THEN NoVitalsRecorded ELSE pdfLines(list)]

\* the layout of exportPdf, in points: the top margin, the cursor position beyond
\* which a page is added, and the advances after the title, the export date, a section
\* header or the no-vitals line, an entry or notes line, and a section
margin == 40
PageLimit == 740
TitleAdvance == 18
DateAdvance == 20
HeaderAdvance == 14
LineAdvance == 12
SectionAdvance == 10

\* if (y > 740) { doc.addPage(); y = margin }
pageBreak(y) == IF y > PageLimit THEN margin ELSE y

\* doc.splitTextToSize(text, 520): the lines of the wrapped text (every notes text
\* drawn here is narrower than 520 points, so it stays on one line)
splitTextToSize(text) == <<text>>

\* the doc.text calls of the entry loop of one section from cursor y, and the cursor
\* after the loop: the page-break test is made before the entry line only
RECURSIVE entryCalls(_, _)
entryCalls(list, y) ==
  IF list = <<>> THEN [calls |-> <<>>, y |-> y]
  ELSE LET v == Head(list)
           y1 == pageBreak(y)
           y2 == y1 + LineAdvance
           n == IF IsDefined(v.notes) /\ Trim(Val(v.notes)) # <<>>
                THEN Len(splitTextToSize(Trim(Val(v.notes)))) ELSE 0
           rest == entryCalls(Tail(list), y2 + n * LineAdvance)
       IN [calls |-> <<[kind |-> "entry", y |-> y1, lines |-> 1]>>
                     \o (IF n > 0 THEN <<[kind |-> "notes", y |-> y2, lines |-> n]>> ELSE <<>>)
                     \o rest.calls,
           y |-> rest.y]

\* the doc.text calls of the sections of ffList from cursor y: the page-break test is
\* made before the header; the no-vitals line follows it untested
RECURSIVE sectionCalls(_, _, _)
sectionCalls(ffList, vitals, y) ==
  IF ffList = <<>> THEN <<>>
  ELSE LET list == pdfSection(Head(ffList), vitals).entries
           y1 == pageBreak(y)
           y2 == y1 + HeaderAdvance
           loop == entryCalls(list, y2)
       IN <<[kind |-> "header", y |-> y1, lines |-> 1]>>
          \o (IF list = <<>>
              THEN <<[kind |-> "No vitals recorded.", y |-> y2, lines |-> 1]>>
                   \o sectionCalls(Tail(ffList), vitals, y2 + HeaderAdvance)
              ELSE loop.calls \o sectionCalls(Tail(ffList), vitals, loop.y + SectionAdvance))

\* exportPdf: whether it raised, the sections of the document (the rosters that do not
\* raise have at most one firefighter, so their order is the roster's) and the
\* doc.text calls of the sections with their cursor positions
exportPdf(firefighters, vitals) ==
  IF sortByNameThrows(firefighters) THEN [threw |-> TRUE, sections |-> <<>>, written |-> <<>>]
  ELSE [threw |-> FALSE, sections |-> MapSeq(firefighters, LAMBDA f : pdfSection(f, vitals)),
        written |-> sectionCalls(firefighters, vitals, margin + TitleAdvance + DateAdvance)]

\* shareFilesIfPossible under each behaviour of navigator.canShare / navigator.share
ShareOutcomes == {"absent", "resolved", "rejected", "cancelled", "threw"}
shareFilesIfPossible(outcome) ==
  [ok |-> outcome = "resolved", threw |-> outcome \in {"rejected", "cancelled", "threw"}]

(***************************************************************************)
(* App.tsx: exportAll                                                      *)
(***************************************************************************)
UpperCase == <<"A", "B", "C", "D", "E", "F", "G", "H", "I", "J", "K", "L", "M",
               "N", "O", "P", "Q", "R", "S", "T", "U", "V", "W", "X", "Y", "Z">>
LowerCase == <<"a", "b", "c", "d", "e", "f", "g", "h", "i", "j", "k", "l", "m",
               "n", "o", "p", "q", "r", "s", "t", "u", "v", "w", "x", "y", "z">>
Digits == {"0", "1", "2", "3", "4", "5", "6", "7", "8", "9"}

toLowerCase(c) ==
  IF \E i \in 1..Len(UpperCase) : UpperCase[i] = c
  THEN LowerCase[CHOOSE i \in 1..Len(UpperCase) : UpperCase[i] = c]
  ELSE c

IsAlnum(c) == c \in Range(LowerCase) \cup Digits

\* replace(/[^a-z0-9]+/g, '-')
RECURSIVE Dashes(_, _)
Dashes(s, inRun) ==
  IF s = <<>> THEN <<>>
  ELSE IF IsAlnum(Head(s)) THEN <<Head(s)>> \o Dashes(Tail(s), FALSE)
  ELSE IF inRun THEN Dashes(Tail(s), TRUE)
  ELSE <<"-">> \o Dashes(Tail(s), TRUE)

\* replace(/(^-|-$)/g, '')
StripDashes(s) ==
  LET a == IF s # <<>> /\ Head(s) = "-" THEN Tail(s) ELSE s
  IN IF a # <<>> /\ a[Len(a)] = "-" THEN SubSeq(a, 1, Len(a) - 1) ELSE a

safeName(name) == StripDashes(Dashes(MapSeq(name, toLowerCase), FALSE))

Str_vital_call == <<"v", "i", "t", "a", "l", "-", "c", "a", "l", "l">>

\* `${safeName || 'vital-call'}-${date}`
baseName(name, t) ==
  (IF safeName(name) = <<>> THEN Str_vital_call ELSE safeName(name)) \o <<"-", ToString(t)>>

\* exportAll up to the await: returns at once without a scene, lets exportPdf's
\* exception escape, or suspends on the share attempt holding both artifacts
exportAll ==
  /\ mounted
  /\ exp.pc = "idle"
  /\ hist.ops < MaxOps
  /\ LET cs == currentScene(state)
     IN IF ~IsDefined(cs) THEN exp' = [Idle EXCEPT !.pc = "returned"]
        ELSE LET csv == exportCsv(Val(cs).firefighters, Val(cs).vitals)
                 pdf == exportPdf(Val(cs).firefighters, Val(cs).vitals)
             IN IF pdf.threw THEN exp' = [Idle EXCEPT !.pc = "threw"]
                ELSE exp' = [Idle EXCEPT !.pc = "sharing",
                                         !.baseName = baseName(Val(cs).name, now),
                                         !.csv = csv, !.pdf = pdf.sections,
                                         !.scene = cs, !.at = now]
  /\ hist' = [hist EXCEPT !.ops = hist.ops + 1]
  /\ dialog' = NoDialog
  /\ UNCHANGED <<storage, state, mounted, now, nextId, api, alerts, ret>>

\* mutant of exportAllResume: the downloaded files are built again from the state at
\* the time the share attempt settles
exportAllResume_ReadsState ==
  /\ mounted
  /\ exp.pc = "sharing"
  /\ \E outcome \in ShareOutcomes :
       LET r == shareFilesIfPossible(outcome)
           cs == IF IsDefined(currentScene(state)) THEN currentScene(state) ELSE exp.scene
           name == baseName(Val(cs).name, now)
           pdf == exportPdf(Val(cs).firefighters, Val(cs).vitals)
       IN IF ~r.threw /\ r.ok
          THEN exp' = [exp EXCEPT !.pc = "done", !.shared = TRUE, !.outcome = outcome]
          ELSE exp' = [exp EXCEPT !.pc = "done", !.outcome = outcome,
                        !.downloads =
                          <<[filename |-> name \o <<".csv">>,
                             content |-> exportCsv(Val(cs).firefighters, Val(cs).vitals)],
                            [filename |-> name \o <<".pdf">>, content |-> pdf.sections]>>]
  /\ dialog' = NoDialog
  /\ UNCHANGED <<storage, state, mounted, now, nextId, api, hist, alerts, ret>>

\* the share attempt settles: exportAll returns after an accepted hand-off, or after
\* triggering the two downloads
exportAllResume ==
  /\ mounted
  /\ exp.pc = "sharing"
  /\ \E outcome \in ShareOutcomes :
       LET r == shareFilesIfPossible(outcome)
       IN IF ~r.threw /\ r.ok
          THEN exp' = [exp EXCEPT !.pc = "done", !.shared = TRUE, !.outcome = outcome]
          ELSE exp' = [exp EXCEPT !.pc = "done", !.outcome = outcome,
                        !.downloads = <<[filename |-> exp.baseName \o <<".csv">>, content |-> exp.csv],
                                        [filename |-> exp.baseName \o <<".pdf">>, content |-> exp.pdf]>>]
  /\ dialog' = NoDialog
  /\ UNCHANGED <<storage, state, mounted, now, nextId, api, hist, alerts, ret>>

\* the click handler that awaited exportAll ends (setShowExport(false) after a
\* return, nothing after an exception); it ends before any other handler runs
exportClosed ==
  /\ mounted
  /\ exp.pc \in {"returned", "threw", "done"}
  /\ exp' = Idle
  /\ dialog' = NoDialog
  /\ UNCHANGED <<storage, state, mounted, now, nextId, api, hist, alerts, ret>>

(***************************************************************************)
(* App.tsx: pointsForMetric and the roster label                           *)
(***************************************************************************)
TrendMetrics == {"hr", "rr", "spo2", "temp", "bp"}

\* the key table of pointsForMetric
MetricKey(metric) ==
  CASE metric = "hr" -> "hr" [] metric = "rr" -> "rr" [] metric = "spo2" -> "spo2"
    [] metric = "temp" -> "tempF"

\* asc.filter((v) => typeof v[k] === 'number').map((v) => ({ x: v.timestamp, y: v[k] }))
points(asc, k) ==
  MapSeq(SelectSeq(asc, LAMBDA v : IsDefined(v[k])),
         LAMBDA v : [x |-> v.timestamp, y |-> Val(v[k])])

\* mutant of pointsForMetric: the entries are taken in the order given
pointsForMetric_Unsorted(entries, metric) ==
  IF metric = "bp" THEN [sys |-> points(entries, "bpSys"), dia |-> points(entries, "bpDia")]
  ELSE [pts |-> points(entries, MetricKey(metric))]

\* mutant of pointsForMetric: both blood-pressure series keep the entries that hold
\* the systolic value
pointsForMetric_SysOnly(entries, metric) ==
  LET asc == SortTs(entries, TRUE)
  IN IF metric = "bp"
     THEN [sys |-> points(asc, "bpSys"),
           dia |-> points(SelectSeq(asc, LAMBDA v : IsDefined(v.bpSys)), "bpDia")]
     ELSE [pts |-> points(asc, MetricKey(metric))]

\* mutant of pointsForMetric: only the entries that hold every measurement are plotted
pointsForMetric_CompleteOnly(entries, metric) ==
  LET asc == SortTs(SelectSeq(entries, LAMBDA v : \A k \in {"hr", "rr", "spo2", "bpSys", "bpDia", "tempF"} :
                                                    IsDefined(v[k])), TRUE)
  IN IF metric = "bp" THEN [sys |-> points(asc, "bpSys"), dia |-> points(asc, "bpDia")]
     ELSE [pts |-> points(asc, MetricKey(metric))]

pointsForMetric(entries, metric) ==
  LET asc == SortTs(entries, TRUE)
  IN IF metric = "bp" THEN [sys |-> points(asc, "bpSys"), dia |-> points(asc, "bpDia")]
     ELSE [pts |-> points(asc, MetricKey(metric))]

\* replace(/^,\s*/, ''): a comma at the start goes, with the whitespace after it
StripLeadingComma(s) == IF s # <<>> /\ Head(s) = "," THEN TrimLeft(Tail(s)) ELSE s

\* `${f.lastName}, ${f.firstName}`.replace(/^,\s*/, '').trim()
label(f) == Trim(StripLeadingComma(f.lastName \o <<",", " ">> \o f.firstName))

(***************************************************************************)
(* SpecViews: the functions that derive the charts, the labels and the     *)
(* exported documents from a scene, applied to scenes drawn from bounded   *)
(* sets of rosters and entry lists                                         *)
(***************************************************************************)
\* entries per scene
MaxEntries == 3

Reading(id, ffId, ts, hr, rr, spo2, bpSys, bpDia, tempF, notes) ==
  [id |-> id, firefighterId |-> ffId, timestamp |-> ts, hr |-> hr, rr |-> rr,
   spo2 |-> spo2, bpSys |-> bpSys, bpDia |-> bpDia, tempF |-> tempF, notes |-> notes]

\* two complete entries and an entry with only hr, all of firefighter f1, two of them
\* taken at the same time; an entry of f2 with only the systolic pressure; an entry
\* with only the diastolic pressure whose firefighter is in no roster
ViewEntries ==
  {Reading("v1", "f1", 1, Some(80), Some(16), Some(98), Some(120), Some(80), Some(98), Some(Str_E1)),
   Reading("v2", "f1", 0, Some(90), Some(18), Some(97), Some(130), Some(85), Some(99), Undefined),
   Reading("v3", "f1", 1, Some(130), Undefined, Undefined, Undefined, Undefined, Undefined, Undefined),
   Reading("v4", "f2", 2, Undefined, Undefined, Undefined, Some(150), Undefined, Undefined, Undefined),
   Reading("v5", "gone", 0, Undefined, Undefined, Undefined, Undefined, Some(95), Undefined, Undefined)}

\* entries in the long list
FullPage == 28

\* entries of firefighter f1 with notes, enough of them to fill the first page
PageOfNotes ==
  [i \in 1..FullPage |->
     Reading(ToString(i), "f1", 0, Some(80), Undefined, Undefined, Undefined, Undefined,
             Undefined, Some(Str_E1))]

\* the lists of distinct entries, in every order, and the long list
ViewLists ==
  {s \in UNION {[1..n -> ViewEntries] : n \in 0..MaxEntries} :
     \A i, j \in 1..Len(s) : i # j => s[i].id # s[j].id}
  \cup {PageOfNotes}

\* rosters as saveFirefighter and migrateFirefighters leave them: empty, one or two
\* firefighters, a missing last name, a missing first name, and a record of a legacy
\* blob that carried name beside firstName and lastName
ViewRosters ==
  {<<>>,
   <<Firefighter("f1", Str_Ann, Str_Lee, Some(Str_E1), Undefined)>>,
   <<Firefighter("f1", Str_Jane, Str_Smith, Undefined, Undefined),
     Firefighter("f2", Str_Cher, <<>>, Undefined, Undefined)>>,
   <<Firefighter("f2", <<>>, Str_Lee, Undefined, Undefined)>>,
   <<[Firefighter("f1", Str_Jane, Str_Smith, Undefined, Undefined)
        EXCEPT !.name = Some(Str_Jane_Smith)]>>}

ViewState(ffs, vitals) ==
  [currentSceneId |-> "s1",
   scenes |-> <<Scene("s1", Str_Drill, 0, ffs, Null, vitals)>>,
   settings |-> DEFAULT_SETTINGS]

VwInit ==
  /\ state \in {ViewState(ffs, vitals) : ffs \in ViewRosters, vitals \in ViewLists}
  /\ storage = saveState(Storage(Absent, Absent), state)
  /\ mounted = TRUE
  /\ now = 3
  /\ nextId = 1
  /\ exp = Idle
  /\ api = "init"
  /\ hist = Hist0
  /\ alerts = <<>>
  /\ dialog = NoDialog
  /\ ret = NoResult

\* none of the functions assigns to its arguments or to the component's state
VwFrame == UNCHANGED <<storage, state, mounted, now, nextId, exp, hist, alerts, dialog>>

\* pointsForMetric(scene.vitals, metric)
VwPoints ==
  /\ \E metric \in TrendMetrics :
       /\ api' = metric
       /\ ret' = pointsForMetric(state.scenes[1].vitals, metric)
  /\ VwFrame

\* the label of every roster row
VwLabels ==
  /\ api' = "label"
  /\ ret' = MapSeq(state.scenes[1].firefighters, label)
  /\ VwFrame

\* exportCsv(scene.firefighters, scene.vitals)
VwExportCsv ==
  /\ api' = "exportCsv"
  /\ ret' = exportCsv(state.scenes[1].firefighters, state.scenes[1].vitals)
  /\ VwFrame

\* exportPdf(scene.firefighters, scene.vitals)
VwExportPdf ==
  /\ api' = "exportPdf"
  /\ ret' = exportPdf(state.scenes[1].firefighters, state.scenes[1].vitals)
  /\ VwFrame

VwNext == VwPoints \/ VwLabels \/ VwExportCsv \/ VwExportPdf

SpecViews == VwInit /\ [][VwNext]_vars

(***************************************************************************)
(* Spec: the application, from a device holding nothing or legacy data     *)
(***************************************************************************)
Init ==
  /\ storage \in {Storage(Absent, b) : b \in {Absent, Json(LegacyA)}}
  /\ state = EmptyState
  /\ mounted = FALSE
  /\ now = 1
  /\ nextId = 1
  /\ exp = Idle
  /\ api = "init"
  /\ hist = Hist0
  /\ alerts = <<>>
  /\ dialog = NoDialog
  /\ ret = NoResult

Next ==
  \/ AppMount
  \/ Reload
  \/ Tick
  \/ startNewScene
  \/ openScene
  \/ showScenes
  \/ deleteScene
  \/ clearCurrentScene
  \/ saveFirefighter
  \/ setStatus
  \/ selectFirefighter
  \/ removeFirefighter
  \/ submitVitals
  \/ updateSettings
  \/ exportAll
  \/ exportAllResume
  \/ exportClosed

Spec == Init /\ [][Next]_vars

(***************************************************************************)
(* Properties of the storage API (checked under SpecStorage)               *)
(***************************************************************************)
\* classification of what a key held when load() ran
Unparseable(blob) == blob.kind = "garbage"
HoldsNothing(blob) == blob.kind = "absent"
V2WrongShape(blob) == blob.kind = "json" /\ ~(blob.doc.truthy /\ blob.doc.scenesIsArray)
V1WrongShape(blob) ==
  /\ blob.kind = "json"
  /\ ~(/\ blob.doc.truthy
       /\ blob.doc.firefightersIsArray
       /\ blob.doc.vitalsIsArray
       /\ blob.doc.elementsAreObjects)
Loaded == hist.loads > 0 /\ api = "load"

\* C1 (as claimed): load() returns the empty default whenever the current-schema
\* data is unparseable or of the wrong shape, or the current key holds nothing and
\* the legacy data is unparseable, of the wrong shape or missing too.
C1_FailsClosed ==
  (/\ Loaded
   /\ \/ Unparseable(hist.pre.v2)
      \/ V2WrongShape(hist.pre.v2)
      \/ /\ HoldsNothing(hist.pre.v2)
         /\ \/ Unparseable(hist.pre.v1)
            \/ V1WrongShape(hist.pre.v1)
            \/ HoldsNothing(hist.pre.v1))
  => state = EmptyState

\* C3 (as claimed): whenever a value is stored under the current-schema key, whatever
\* its content, load() does not return a state migrated from the legacy blob.
C3_LegacyOnlyWhenCurrentAbsent ==
  (Loaded /\ ~HoldsNothing(hist.pre.v2)) => ~hist.migrated

\* C4: s = load(); save(s); load() returns a state equal to s, field by field
\* (currentSceneId, scenes with rosters, selections, vitals, timestamps, settings).
C4_LoadSaveLoad ==
  (Loaded /\ hist.roundTrip) => state = hist.first

\* C4 witness: a round trip whose first load migrated legacy data at an earlier time
C4_Witness ==
  /\ Loaded /\ hist.roundTrip
  /\ hist.migrations = 1 /\ ~hist.migrated
  /\ Len(state.scenes) = 1 /\ state.scenes[1].createdAt < now
  /\ Len(state.scenes[1].vitals) > 1

\* the roster the last load found under the legacy key, and the roster it returned
LegacyRoster == hist.pre[KEY_V1].doc.firefighters
MigratedRoster == state.scenes[1].firefighters
NameKeyed(f) == ~(f.hasFirst /\ f.hasLast)
NameOf(f) == IF IsDefined(f.name) THEN Val(f.name) ELSE <<>>
NoSpaces(s) == SelectSeq(s, LAMBDA c : c # " ")
SingleSpaced(s) ==
  /\ s # <<>> => s[1] # " " /\ s[Len(s)] # " "
  /\ \A i \in 1..(Len(s) - 1) : ~(s[i] = " " /\ s[i + 1] = " ")

\* C18: migration splits a legacy name into firstName = its first whitespace-delimited
\* token and lastName = the remaining tokens joined by single spaces: "Jane Smith"
\* gives ("Jane", "Smith"), "Cher" gives ("Cher", ""), three tokens keep the last two
\* in lastName, an empty or missing name gives ("", ""); the id is preserved.
C18_NameSplit ==
  (Loaded /\ hist.migrated) =>
    /\ Len(MigratedRoster) = Len(LegacyRoster)
    /\ \A i \in 1..Len(LegacyRoster) :
         LET old == LegacyRoster[i]
             new == MigratedRoster[i]
         IN /\ new.id = old.id
            /\ NameKeyed(old) =>
                 /\ new.firstName = NoSpaces(new.firstName)
                 /\ SingleSpaced(new.lastName)
                 /\ NoSpaces(new.firstName \o new.lastName) = NoSpaces(NameOf(old))
                 /\ new.firstName = <<>> => new.lastName = <<>>
                 /\ NameOf(old) = Str_Jane_Smith =>
                      new.firstName = Str_Jane /\ new.lastName = Str_Smith
                 /\ NameOf(old) = Str_Cher => new.firstName = Str_Cher /\ new.lastName = <<>>
                 /\ NameOf(old) = Str_Mary_Ann_Lee =>
                      new.firstName = Str_Mary /\ new.lastName = Str_Ann_Lee
                 /\ NameOf(old) = <<>> => new.firstName = <<>> /\ new.lastName = <<>>

\* C18 witness: the roster with the three-token name, the empty name and the missing
\* name was migrated
C18_Witness ==
  /\ Loaded /\ hist.migrated /\ hist.pre[KEY_V1] = Json(LegacyC)
  /\ MigratedRoster[1].lastName = Str_Ann_Lee
  /\ MigratedRoster[3].id = "f6" /\ MigratedRoster[3].firstName = <<>>

ValidStatus == {"duty", "rehab", "transport"}

\* C19: after a migration every firefighter of the migrated scene has a status that is
\* absent or in the enum; a legacy status outside the enum is cleared on records keyed
\* by name and on records that already have firstName and lastName.
C19_StatusInEnum ==
  (Loaded /\ hist.migrated) =>
    \A i \in 1..Len(MigratedRoster) :
      \/ ~IsDefined(MigratedRoster[i].status)
      \/ Val(MigratedRoster[i].status) \in ValidStatus

\* C19 witness: records of both shapes carried the status "resting"; after the
\* migration it is gone from both, and the status "transport" is kept
C19_Witness ==
  /\ Loaded /\ hist.migrated
  /\ \E i, j \in 1..Len(LegacyRoster) :
       /\ NameKeyed(LegacyRoster[i]) /\ LegacyRoster[i].status = Some("resting")
       /\ ~NameKeyed(LegacyRoster[j]) /\ LegacyRoster[j].status = Some("resting")
       /\ ~IsDefined(MigratedRoster[i].status) /\ ~IsDefined(MigratedRoster[j].status)
  /\ \E k \in 1..Len(MigratedRoster) : MigratedRoster[k].status = Some("transport")

\* C20: after clearAll() both keys are absent from storage, and the next load() returns
\* the empty default state and migrates nothing.
C20_ClearAll ==
  [][/\ api' = "clearAll" => storage' = Storage(Absent, Absent)
     /\ (api = "clearAll" /\ api' = "load") =>
          /\ state' = EmptyState
          /\ ~hist'.migrated
          /\ storage' = Storage(Absent, Absent)]_vars

\* C20 witness: a first load migrated legacy data, clearAll() erased both keys, and
\* the load that followed found nothing and returned the empty default
C20_Witness ==
  /\ Loaded /\ hist.loads = 2 /\ hist.migrations = 1 /\ ~hist.migrated
  /\ hist.pre = Storage(Absent, Absent)
  /\ state = EmptyState

(***************************************************************************)
(* Properties of the application (checked under Spec)                      *)
(***************************************************************************)
SceneById(s, id) == s.scenes[FindIndex(s.scenes, id, 1)]
MigratedFromLegacyA == hist.migrations = 1 /\ storage[KEY_V1] = Json(LegacyA)

\* C2: migration is executed by at most one load; once a load has migrated, a later
\* load returns the state persisted under the current-schema key and migrates nothing.
C2_MigratesOnce ==
  [][/\ hist.migrations' <= 1
     /\ (Reload /\ hist.migrations >= 1)
          => /\ hist.migrations' = hist.migrations
             /\ state' = FromV2(storage[KEY_V2].doc)]_vars

\* C2 witness: legacy data was migrated, a scene was added, and a later load returned
\* both scenes without migrating
C2_Witness ==
  /\ mounted /\ MigratedFromLegacyA /\ ~hist.migrated
  /\ Len(state.scenes) = 2
  /\ state.scenes[2].id = "scene_migrated"

\* C5: after the initial load and after every completed transition the blob under the
\* current-schema key is the serialization of the in-memory state.
C5_WriteThrough == mounted => storage[KEY_V2] = JsonStringify(state)

\* C5 witness: after several transitions, one of them a settings change whose
\* serialization differs from the in-memory value
C5_Witness ==
  /\ mounted /\ hist.ops >= 3
  /\ state.settings.thresholds.hrHigh = NaN
  /\ Len(state.scenes) = 2
  /\ storage[KEY_V2].doc.scenes = state.scenes
  /\ Val(storage[KEY_V2].doc.settings).thresholds.hrHigh = JsonNull

\* C6: each scene's selectedFirefighterId is none or the id of a firefighter of that
\* scene's roster.
C6_SelectionInRoster ==
  mounted =>
    \A i \in 1..Len(state.scenes) :
      \/ state.scenes[i].selectedFirefighterId = Null
      \/ state.scenes[i].selectedFirefighterId \in Ids(state.scenes[i].firefighters)

\* C6 witness: the migration copied the legacy selection f2, and removing f2 moved the
\* selection to the firefighter that remains
C6_Witness ==
  /\ mounted /\ MigratedFromLegacyA /\ hist.ops = 1
  /\ Len(state.scenes) = 1
  /\ Ids(state.scenes[1].firefighters) = {"f1"}
  /\ state.scenes[1].selectedFirefighterId = "f1"

\* C7: removing firefighter X deletes X from the roster and exactly the entries whose
\* firefighterId is X's id; every other firefighter and entry stays, unchanged and in
\* the same relative order.
C7_RemoveCascade ==
  [][\A id \in RosterIds :
       removeFirefighterOf(id, TRUE) =>
         LET old == Val(currentScene(state))
             new == SceneById(state', old.id)
         IN /\ old.id \in Ids(state'.scenes)
            /\ new.firefighters = SelectSeq(old.firefighters, LAMBDA f : f.id # id)
            /\ new.vitals = SelectSeq(old.vitals, LAMBDA v : v.firefighterId # id)]_vars

\* C7 witness: f1 was removed from the migrated scene; its entry e1 is gone and e2, the
\* entry of f2 with the same timestamp, remains
C7_Witness ==
  /\ mounted /\ MigratedFromLegacyA /\ hist.ops = 1
  /\ Len(state.scenes) = 1
  /\ Ids(state.scenes[1].firefighters) = {"f2"}
  /\ Len(state.scenes[1].vitals) = 1
  /\ state.scenes[1].vitals[1] = LegacyA.vitals[2]
  /\ LegacyA.vitals[1].timestamp = LegacyA.vitals[2].timestamp

PointerOk(s) == s.currentSceneId = Null \/ s.currentSceneId \in Ids(s.scenes)

\* C8: currentSceneId is none or the id of a scene in the list; deleting the active
\* scene moves the pointer to a scene that still exists, or to none when no scene
\* remains; deleting another scene leaves the pointer unchanged.
C8_ActivePointer ==
  [][/\ mounted' => PointerOk(state')
     /\ \A sceneId \in Ids(state.scenes) :
          deleteSceneOf(sceneId, TRUE) =>
            /\ sceneId \notin Ids(state'.scenes)
            /\ IF state.currentSceneId = sceneId
               THEN IF state'.scenes = <<>> THEN state'.currentSceneId = Null
                    ELSE state'.currentSceneId \in Ids(state'.scenes)
               ELSE state'.currentSceneId = state.currentSceneId]_vars

\* C8 witness: a scene was started (becoming active) and deleted, and the pointer moved
\* to the migrated scene that remains
C8_Witness ==
  /\ mounted /\ MigratedFromLegacyA /\ hist.ops = 2 /\ nextId = 2 /\ now = 1
  /\ Len(state.scenes) = 1
  /\ state.currentSceneId = "scene_migrated"
  /\ Len(state.scenes[1].firefighters) = 2 /\ Len(state.scenes[1].vitals) = 2
  /\ state.settings = DEFAULT_SETTINGS

\* C9: an entry of a scene is, after any transition, still in that scene with all its
\* fields unchanged or no longer in it; in a scene that continues to exist an entry
\* is removed only by removing its firefighter or by clearing the scene; submitting
\* adds exactly one new entry at the end of the list.
C9_AppendOnly ==
  [][/\ \A i \in 1..Len(state.scenes) :
          LET old == state.scenes[i]
          IN old.id \in Ids(state'.scenes) =>
               LET new == SceneById(state', old.id)
               IN \A j \in 1..Len(old.vitals) :
                    LET e == old.vitals[j]
                    IN /\ \A k \in 1..Len(new.vitals) :
                            new.vitals[k].id = e.id => new.vitals[k] = e
                       /\ e.id \notin Ids(new.vitals) =>
                            \/ removeFirefighterOf(e.firefighterId, TRUE)
                            \/ clearCurrentSceneOf(TRUE)
     /\ \A form \in VitalsForms :
          (submitVitalsOf(form) /\ IsDefined(selected(state))) =>
            LET old == Val(currentScene(state))
                new == SceneById(state', old.id)
            IN /\ Len(new.vitals) = Len(old.vitals) + 1
               /\ SubSeq(new.vitals, 1, Len(old.vitals)) = old.vitals
               /\ new.vitals[Len(new.vitals)].id \notin Ids(old.vitals)]_vars

\* C9 witness: an entry was submitted for f2 and stands after the two migrated entries
C9_Witness ==
  /\ mounted /\ MigratedFromLegacyA /\ hist.ops = 1
  /\ Len(state.scenes) = 1
  /\ Len(state.scenes[1].vitals) = 3
  /\ SubSeq(state.scenes[1].vitals, 1, 2) = LegacyA.vitals
  /\ state.scenes[1].vitals[3].id = nanoid(1)
  /\ state.scenes[1].vitals[3].firefighterId = "f2"

\* C10 (as claimed): no exportAll invocation on an active scene lets an exception
\* escape, whatever the roster, the entries and the share outcome.
C10_NoExceptionEscapes == exp.pc # "threw"

ExportedFiles(e) ==
  <<[filename |-> e.baseName \o <<".csv">>, content |-> e.csv],
    [filename |-> e.baseName \o <<".pdf">>, content |-> e.pdf]>>

\* how a settled share attempt ends: accepted and nothing downloaded, or not accepted
\* (whatever the reason) and the table then the report downloaded, with no error
ShareThenDownloads(e) ==
  /\ e.pc = "done"
  /\ IF e.outcome = "resolved"
     THEN e.shared /\ e.downloads = <<>>
     ELSE ~e.shared /\ e.downloads = ExportedFiles(e)

\* C11 (as claimed): every exportAll on an active scene makes the share attempt before
\* any download, and whatever the share outcome it ends with the hand-off accepted and
\* no download, or with exactly two downloads, the table first and the report second;
\* no error reaches the caller.
C11_ShareThenDownloads ==
  [][/\ (exportAll /\ IsDefined(currentScene(state)))
          => exp'.pc = "sharing" /\ exp'.downloads = <<>>
     /\ exportAllResume => ShareThenDownloads(exp')]_vars

\* C11, for the calls that reach the share attempt: no download precedes it and it
\* settles as ShareThenDownloads says
C11_FromShareAttempt ==
  [][/\ exp'.pc = "sharing" => exp'.downloads = <<>>
     /\ exportAllResume => ShareThenDownloads(exp')]_vars

\* C12: the table, the report and the base filename are those built from the scene as
\* it was when exportAll was called; transitions interleaved while the share attempt is
\* pending change none of them, and the files downloaded in the fallback are the ones
\* offered to the share hand-off.
C12_Snapshot ==
  [][/\ exp'.pc \in {"sharing", "done"} =>
          /\ exp'.csv = exportCsv(Val(exp'.scene).firefighters, Val(exp'.scene).vitals)
          /\ exp'.pdf = exportPdf(Val(exp'.scene).firefighters, Val(exp'.scene).vitals).sections
          /\ exp'.baseName = baseName(Val(exp'.scene).name, exp'.at)
     /\ (exp.pc = "sharing" /\ exp'.pc \in {"sharing", "done"}) =>
          /\ exp'.csv = exp.csv /\ exp'.pdf = exp.pdf /\ exp'.baseName = exp.baseName
          /\ exp'.scene = exp.scene /\ exp'.at = exp.at
     /\ (exp'.pc = "done" /\ ~exp'.shared) => exp'.downloads = ExportedFiles(exp')]_vars

\* C12 witness: the fallback downloaded the files although the scene (its roster or
\* its entries) and the clock had changed while the share attempt was pending
C12_Witness ==
  /\ exp.pc = "done" /\ ~exp.shared /\ Len(exp.downloads) = 2
  /\ IsDefined(currentScene(state))
  /\ Val(currentScene(state)).id = Val(exp.scene).id
  /\ Val(currentScene(state)).vitals # Val(exp.scene).vitals
  /\ exportCsv(Val(currentScene(state)).firefighters, Val(currentScene(state)).vitals) # exp.csv
  /\ exp.downloads[1].content = exp.csv
  /\ now > exp.at

(***************************************************************************)
(* Properties of getAlerts (checked under SpecAlerts)                      *)
(***************************************************************************)
Shown == api \in {"render", "settings"}
ShownEntry == state.scenes[1].vitals[1]
ShownTags == alerts[1].alerts
ShownThresholds == state.settings.thresholds

\* x above / below a bound that is a number (nothing is above or below NaN)
Above(x, b) == b.t = "num" /\ x > b.n
Below(x, b) == b.t = "num" /\ x < b.n
AreNumbers(t, keys) == \A k \in keys : t[k].t # "null"

\* C13: no tag is produced for a field that is absent (hr, rr, spo2, temp need their own
\* field, bp needs systolic or diastolic), an entry with all six fields absent gets the
\* empty tag set, and getAlerts returns a set of tags for every entry and thresholds.
C13_AbsentNeverFlagged ==
  Shown =>
    /\ Len(alerts) = 1
    /\ ShownTags \subseteq AlertKeys
    /\ "hr" \in ShownTags => IsDefined(ShownEntry.hr)
    /\ "rr" \in ShownTags => IsDefined(ShownEntry.rr)
    /\ "spo2" \in ShownTags => IsDefined(ShownEntry.spo2)
    /\ "temp" \in ShownTags => IsDefined(ShownEntry.tempF)
    /\ "bp" \in ShownTags => IsDefined(ShownEntry.bpSys) \/ IsDefined(ShownEntry.bpDia)
    /\ ShownEntry = NoVitals => ShownTags = {}

\* C13 witness: the entry with nothing recorded, rendered with no tag after the
\* thresholds were edited, under bounds that would flag a zero
C13_Witness ==
  /\ api = "settings" /\ ShownEntry = NoVitals /\ ShownTags = {}
  /\ ShownThresholds.hrLow = Num(49) /\ ShownThresholds.spo2Low = Num(91)

\* C14: a present heart rate is flagged iff it is above hrHigh or below hrLow, and a
\* present respiratory rate iff above rrHigh or below rrLow; a value equal to a bound
\* is not flagged: with the defaults, 100 and 50 are not flagged, 101 and 49 are.
C14_ExclusiveBounds ==
  /\ (Shown /\ AreNumbers(ShownThresholds, {"hrHigh", "hrLow"})) =>
       ("hr" \in ShownTags <=>
          /\ IsDefined(ShownEntry.hr)
          /\ \/ Above(Val(ShownEntry.hr), ShownThresholds.hrHigh)
             \/ Below(Val(ShownEntry.hr), ShownThresholds.hrLow))
  /\ (Shown /\ AreNumbers(ShownThresholds, {"rrHigh", "rrLow"})) =>
       ("rr" \in ShownTags <=>
          /\ IsDefined(ShownEntry.rr)
          /\ \/ Above(Val(ShownEntry.rr), ShownThresholds.rrHigh)
             \/ Below(Val(ShownEntry.rr), ShownThresholds.rrLow))
  /\ (Shown /\ ShownThresholds = DEFAULT_SETTINGS.thresholds /\ IsDefined(ShownEntry.hr)) =>
       /\ Val(ShownEntry.hr) \in {50, 100} => "hr" \notin ShownTags
       /\ Val(ShownEntry.hr) \in {49, 101} => "hr" \in ShownTags

\* C14 witness: heart rate 100 rendered without the tag under the default bounds
C14_Witness ==
  /\ Shown /\ ShownThresholds = DEFAULT_SETTINGS.thresholds
  /\ ShownEntry.hr = Some(100) /\ "hr" \notin ShownTags

\* C15: every alert evaluation uses the thresholds in the settings at the time: after
\* any settings change the tags shown for each entry are those of getAlerts under the
\* current thresholds.
C15_CurrentThresholds ==
  Shown =>
    /\ Len(alerts) = Len(selectedVitals(state))
    /\ \A i \in 1..Len(alerts) :
         alerts[i].alerts = getAlerts(selectedVitals(state)[i], state.settings.thresholds)

\* C15 witness: after a threshold edit the tags shown differ from those the default
\* thresholds give
C15_Witness ==
  /\ api = "settings"
  /\ ShownThresholds # DEFAULT_SETTINGS.thresholds
  /\ ShownTags # getAlerts(ShownEntry, DEFAULT_SETTINGS.thresholds)

\* C16: a present oxygen saturation is flagged iff it is below spo2Low; at the bound
\* or above it, however high, it is not flagged.
C16_Spo2LowOnly ==
  (Shown /\ AreNumbers(ShownThresholds, {"spo2Low"})) =>
    /\ "spo2" \in ShownTags <=>
         IsDefined(ShownEntry.spo2) /\ Below(Val(ShownEntry.spo2), ShownThresholds.spo2Low)
    /\ (IsDefined(ShownEntry.spo2) /\ ~Below(Val(ShownEntry.spo2), ShownThresholds.spo2Low))
         => "spo2" \notin ShownTags

\* C16 witness: saturation 92 rendered without the tag under spo2Low = 92
C16_Witness ==
  /\ Shown /\ ShownThresholds.spo2Low = Num(92)
  /\ ShownEntry.spo2 = Some(92) /\ "spo2" \notin ShownTags

\* C17: the bp tag is produced iff systolic is present and above bpSysHigh or below
\* bpSysLow, or diastolic is present and above bpDiaHigh or below bpDiaLow; a value
\* equal to a bound does not flag, one sub-value alone is judged alone, and both
\* sub-conditions give the one tag bp.
C17_BloodPressure ==
  (Shown /\ AreNumbers(ShownThresholds, {"bpSysHigh", "bpSysLow", "bpDiaHigh", "bpDiaLow"})) =>
    /\ "bp" \in ShownTags <=>
         \/ /\ IsDefined(ShownEntry.bpSys)
            /\ \/ Above(Val(ShownEntry.bpSys), ShownThresholds.bpSysHigh)
               \/ Below(Val(ShownEntry.bpSys), ShownThresholds.bpSysLow)
         \/ /\ IsDefined(ShownEntry.bpDia)
            /\ \/ Above(Val(ShownEntry.bpDia), ShownThresholds.bpDiaHigh)
               \/ Below(Val(ShownEntry.bpDia), ShownThresholds.bpDiaLow)
    /\ ShownTags \subseteq AlertKeys

\* C17 witness: an entry with only a diastolic value, below bpDiaLow, rendered with
\* the tag bp
C17_Witness ==
  /\ Shown /\ ShownThresholds.bpDiaLow = Num(60)
  /\ ~IsDefined(ShownEntry.bpSys) /\ ShownEntry.bpDia = Some(59)
  /\ ShownTags = {"bp"}

(***************************************************************************)
(* Properties of the guarded handlers                                      *)
(***************************************************************************)
\* a text input that is empty once surrounding whitespace is removed
OnlySpaces(s) == \A i \in 1..Len(s) : s[i] = " "

BlankNames(form) == OnlySpaces(form.firstName) /\ OnlySpaces(form.lastName)

SaveModes == {"add", "edit"}

\* C21: saving a firefighter, in add mode or in edit mode, with a first name and a
\* last name that are both empty after trimming changes nothing: the roster, the
\* selection, the vitals and updatedAt of every scene keep their values, and so does
\* the persisted blob
C21_BlankNamesRejected ==
  [][\A mode \in SaveModes, id \in RosterIds \cup {Null}, form \in FfForms :
       (BlankNames(form) /\ saveFirefighterOf(mode, id, form))
         => (state' = state /\ storage' = storage)]_vars

\* a blank save was just rejected on a scene that has a roster, a selection and vitals
C21_Witness ==
  /\ dialog = NameRequired
  /\ IsDefined(selected(state))
  /\ selectedVitals(state) # <<>>
  /\ RawTruthy(storage.v2)

Untouched == state' = state /\ storage' = storage

\* C22: removing a firefighter, clearing the current scene and deleting a scene ask
\* for confirmation first: a declined prompt leaves the in-memory state and the
\* persisted blob as they were, and a confirmed one applies the mutation
C22_ConfirmGated ==
  [][/\ \A id \in RosterIds :
          /\ removeFirefighterOf(id, FALSE) => Untouched
          /\ removeFirefighterOf(id, TRUE) =>
               LET sc == Val(currentScene(state'))
               IN /\ id \notin Ids(sc.firefighters)
                  /\ \A i \in 1..Len(sc.vitals) : sc.vitals[i].firefighterId # id
     /\ IsDefined(currentScene(state)) =>
          /\ clearCurrentSceneOf(FALSE) => Untouched
          /\ clearCurrentSceneOf(TRUE) =>
               LET sc == Val(currentScene(state'))
               IN /\ sc.firefighters = <<>> /\ sc.vitals = <<>>
                  /\ sc.selectedFirefighterId = Null
     /\ \A sceneId \in Ids(state.scenes) :
          /\ deleteSceneOf(sceneId, FALSE) => Untouched
          /\ deleteSceneOf(sceneId, TRUE) => sceneId \notin Ids(state'.scenes)]_vars

\* one firefighter of the migrated roster of two was removed after a confirmed prompt,
\* and a later prompt was declined with a roster and vitals still in place
C22_Witness ==
  /\ dialog = Declined
  /\ hist.migrations = 1
  /\ Len(state.scenes) = 1
  /\ Len(state.scenes[1].firefighters) = 1
  /\ state.scenes[1].vitals # <<>>
  /\ RawTruthy(storage.v2)

(***************************************************************************)
(* Properties of exportCsv and exportPdf                                   *)
(***************************************************************************)
Roster == state.scenes[1].firefighters

Entries == state.scenes[1].vitals

\* the place of the i-th element of s once s is ordered by ascending timestamp, the
\* elements with equal timestamps keeping the order they have in s
AscPlace(s, i) ==
  1 + Cardinality({j \in 1..Len(s) : s[j].timestamp < s[i].timestamp})
    + Cardinality({j \in 1..(i - 1) : s[j].timestamp = s[i].timestamp})

\* C23: exportCsv gives exactly one row per vitals entry, whatever the roster (empty
\* too), whether or not the entry's firefighterId is in the roster, and however many
\* entries share a timestamp; the rows are in ascending order of timestamp
C23_RowPerEntry ==
  api = "exportCsv" =>
    /\ Len(ret) = Len(Entries)
    /\ \A i \in 1..Len(Entries) : ret[AscPlace(Entries, i)].time = Entries[i].timestamp
    /\ \A i, j \in 1..Len(ret) : i < j => ret[i].time <= ret[j].time

\* three rows from three entries, two of them with the same timestamp and one of a
\* firefighter who is not in the (empty) roster
C23_Witness ==
  /\ api = "exportCsv"
  /\ Roster = <<>>
  /\ Len(ret) = 3
  /\ \E i, j \in 1..Len(Entries) : i # j /\ Entries[i].timestamp = Entries[j].timestamp
  /\ \E i \in 1..Len(Entries) : Entries[i].firefighterId = "gone"
  /\ \E i \in 1..(Len(Entries) - 1) : Entries[i].timestamp > Entries[i + 1].timestamp

\* the firefighters of the roster with that id
WithId(id) == {i \in 1..Len(Roster) : Roster[i].id = id}

\* C24: the firefighter column of a row holds the display name of the firefighter the
\* entry references whenever the roster has that firefighter, and holds "Unknown"
\* exactly when the roster has no firefighter with that id
C24_FirefighterColumn ==
  api = "exportCsv" =>
    \A i \in 1..Len(Entries) :
      LET row == ret[AscPlace(Entries, i)]
          found == WithId(Entries[i].firefighterId)
      IN /\ \A k \in found : row.firefighter = label(Roster[k])
         /\ row.firefighter = Str_Unknown <=> found = {}

\* the characters of the names, in code-unit order
CodeUnits == <<" ", ",">> \o UpperCase \o LowerCase

CodeOf(c) == CHOOSE i \in 1..Len(CodeUnits) : CodeUnits[i] = c

\* a <= b in the case-sensitive lexicographic order
RECURSIVE StrLeq(_, _)
StrLeq(a, b) ==
  IF a = <<>> THEN TRUE
  ELSE IF b = <<>> THEN FALSE
  ELSE IF Head(a) = Head(b) THEN StrLeq(Tail(a), Tail(b))
  ELSE CodeOf(Head(a)) < CodeOf(Head(b))

Descending(list) == \A i, j \in 1..Len(list) : i < j => list[i].timestamp >= list[j].timestamp

\* C25: exportPdf emits the firefighters' sections in ascending order of display
\* name, and the entries of each section in descending order of timestamp
C25_ReportOrder ==
  api = "exportPdf" =>
    /\ ~ret.threw
    /\ {ret.sections[i].id : i \in 1..Len(ret.sections)} = Ids(Roster)
    /\ \A i, j \in 1..Len(ret.sections) :
         i < j => \A a \in WithId(ret.sections[i].id), b \in WithId(ret.sections[j].id) :
                    StrLeq(label(Roster[a]), label(Roster[b]))
    /\ \A i \in 1..Len(ret.sections) : Descending(ret.sections[i].entries)

\* C26: exportPdf emits exactly one section per firefighter of the roster, with or
\* without entries; the section of a firefighter without entries holds the header and
\* the single line 'No vitals recorded.'
C26_SectionPerFirefighter ==
  api = "exportPdf" =>
    /\ Len(ret.sections) = Len(Roster)
    /\ \A k \in 1..Len(Roster) :
         \E i \in 1..Len(ret.sections) :
           /\ ret.sections[i].id = Roster[k].id
           /\ (\A e \in 1..Len(Entries) : Entries[e].firefighterId # Roster[k].id)
                => ret.sections[i].lines = NoVitalsRecorded

(***************************************************************************)
(* Properties of pointsForMetric                                           *)
(***************************************************************************)
\* the entry field a metric plots
FieldOf(metric) == [hr |-> "hr", rr |-> "rr", spo2 |-> "spo2", temp |-> "tempF"][metric]

Holding(field) == SelectSeq(Entries, LAMBDA v : v[field] # <<>>)

\* series is the entries of Entries that hold the field, as (timestamp, value)
\* pairs, ordered by ascending timestamp with ties in the order of Entries
SeriesOf(series, field) ==
  /\ Len(series) = Len(Holding(field))
  /\ \A i \in 1..Len(Holding(field)) :
       series[AscPlace(Holding(field), i)] =
         [x |-> Holding(field)[i].timestamp, y |-> Holding(field)[i][field][1]]
  /\ \A i, j \in 1..Len(series) : i < j => series[i].x <= series[j].x

\* C27: for a metric other than blood pressure, pointsForMetric returns exactly the
\* entries that hold the metric's field, as (timestamp, value) pairs in non-decreasing
\* order of timestamp with ties in the order of the input; the result is the same
\* whatever was called before, the input list is left as it was, and an empty input
\* or one where no entry holds the field gives the empty sequence
C27_SeriesOfMetric ==
  /\ [](api \in TrendMetrics \ {"bp"} =>
          /\ DOMAIN ret = {"pts"}
          /\ SeriesOf(ret.pts, FieldOf(api))
          /\ Holding(FieldOf(api)) = <<>> => ret.pts = <<>>)
  /\ [][VwPoints => state' = state]_vars

\* hr of three entries given newest-first, two of them taken at the same time
C27_Witness ==
  /\ api = "hr"
  /\ Len(Entries) = 3
  /\ Entries[1].timestamp = Entries[2].timestamp
  /\ Entries[2].timestamp > Entries[3].timestamp
  /\ Len(ret.pts) = 3
  /\ ret.pts[2].y = Entries[1].hr[1] /\ ret.pts[3].y = Entries[2].hr[1]

\* the end-to-end scenario: a firefighter with three entries, two complete and one
\* with only hr
ThreeEntries ==
  /\ Len(Entries) = 3
  /\ {Entries[i].id : i \in 1..3} = {"v1", "v2", "v3"}

Ascending(series) == \A i, j \in 1..Len(series) : i < j => series[i].x <= series[j].x

\* C28 as stated: in the scenario the hr series has exactly 2 points in ascending
\* order of timestamp and the rr series has exactly 2 points
C28_AsStated ==
  ThreeEntries =>
    /\ api = "hr" => Len(ret.pts) = 2 /\ Ascending(ret.pts)
    /\ api = "rr" => Len(ret.pts) = 2

\* C28: in the scenario the hr series has exactly 3 points, one per entry since all
\* three hold hr, in ascending order of timestamp, and the rr series has exactly 2
\* points, the entry with only hr being left out
C28_EndToEnd ==
  ThreeEntries =>
    /\ api = "hr" => Len(ret.pts) = 3 /\ Ascending(ret.pts)
    /\ api = "rr" =>
         /\ Len(ret.pts) = 2 /\ Ascending(ret.pts)
         /\ {ret.pts[i].y : i \in 1..2} = {16, 18}

C28_Witness ==
  /\ ThreeEntries
  /\ api = "hr"
  /\ Len(ret.pts) = 3
  /\ Entries[1].id = "v3"

\* C29: for blood pressure pointsForMetric returns two series, one of exactly the
\* entries that hold the systolic value and one of exactly the entries that hold the
\* diastolic value, each ascending by timestamp; an entry that holds one of the two
\* values is in that value's series only
C29_BloodPressureSeries ==
  api = "bp" =>
    /\ DOMAIN ret = {"sys", "dia"}
    /\ SeriesOf(ret.sys, "bpSys")
    /\ SeriesOf(ret.dia, "bpDia")

\* the two series differ in length and in content
C29_Witness ==
  /\ api = "bp"
  /\ Len(ret.sys) = 2 /\ Len(ret.dia) = 1
  /\ \E i \in 1..Len(Entries) : Entries[i].bpSys # <<>> /\ Entries[i].bpDia = <<>>

(***************************************************************************)
(* Properties of the roster label                                          *)
(***************************************************************************)
\* C30: the display name of a firefighter is "lastName, firstName"; with an empty
\* lastName it is exactly firstName and with an empty firstName it is exactly
\* lastName, without a leading or trailing comma or space
C30_DisplayName ==
  api = "label" =>
    \A k \in 1..Len(Roster) :
      LET f == Roster[k]
      IN ret[k] = IF f.lastName = <<>> THEN f.firstName
                  ELSE IF f.firstName = <<>> THEN f.lastName
                  ELSE f.lastName \o <<",", " ">> \o f.firstName

(***************************************************************************)
(* Properties of the scenes list (checked under Spec)                      *)
(***************************************************************************)
\* C31: a scene of the list stays in the list, with its id, name and createdAt, through
\* every step that is not a confirmed deleteScene of that scene's id: clearing,
\* switching, creating, settings changes, roster and vitals changes and reloads keep it
C31_SceneKeptUntilDeleted ==
  [][\A i \in 1..Len(state.scenes) :
       LET old == state.scenes[i]
       IN \/ deleteSceneOf(old.id, TRUE)
          \/ /\ old.id \in Ids(state'.scenes)
             /\ SceneById(state', old.id).name = old.name
             /\ SceneById(state', old.id).createdAt = old.createdAt]_vars

\* a scene started by the user is still in the list after three or more operations,
\* with a roster added after its creation
C31_Witness ==
  /\ hist.ops >= 3
  /\ \E i \in 1..Len(state.scenes) :
       /\ state.scenes[i].id # "scene_migrated"
       /\ state.scenes[i].createdAt < state.scenes[i].updatedAt
       /\ state.scenes[i].firefighters # <<>>

\* the step is a call of one of the handlers that change the active scene, and the
\* call reached its setState
SceneTransition ==
  /\ hist'.ops = hist.ops + 1
  /\ dialog' = NoDialog
  /\ \/ \E mode \in SaveModes, id \in RosterIds \cup {Null}, form \in FfForms :
          saveFirefighterOf(mode, id, form)
     \/ \E status \in StatusInputs : setStatusOf(status)
     \/ \E id \in RosterIds : selectFirefighterOf(id) \/ removeFirefighterOf(id, TRUE)
     \/ \E form \in VitalsForms : submitVitalsOf(form)
     \/ clearCurrentSceneOf(TRUE)

SceneContent(sc) == <<sc.firefighters, sc.selectedFirefighterId, sc.vitals>>

\* C32: every transition that changes a scene (add, edit or remove a firefighter, set
\* a status, select a firefighter, append vitals, clear the scene) sets that scene's
\* updatedAt to the time of the transition; no step changes the roster, the selection
\* or the vitals of a scene without setting its updatedAt so; createdAt never changes
C32_UpdatedAtStamped ==
  [][/\ SceneTransition => SceneById(state', state.currentSceneId).updatedAt = now
     /\ \A i \in 1..Len(state.scenes) :
          LET old == state.scenes[i]
          IN old.id \in Ids(state'.scenes) =>
               LET new == SceneById(state', old.id)
               IN /\ SceneContent(new) # SceneContent(old) => new.updatedAt = now
                  /\ new.createdAt = old.createdAt]_vars

\* a third firefighter was added to the migrated roster after the clock advanced
C32_Witness ==
  /\ hist.migrations = 1
  /\ \E i \in 1..Len(state.scenes) :
       /\ state.scenes[i].id = "scene_migrated"
       /\ Len(state.scenes[i].firefighters) = 3
       /\ state.scenes[i].updatedAt = now
       /\ state.scenes[i].updatedAt > state.scenes[i].createdAt

(***************************************************************************)
(* Properties of loadState (checked under SpecStorage)                     *)
(***************************************************************************)
\* C33: a load that migrates legacy data returns exactly one scene, with the id
\* "scene_migrated", the name "Current Scene" and createdAt = updatedAt = the time of
\* the load; that scene is the active scene, the settings are the defaults, and the
\* vitals of the scene are the legacy vitals, entry by entry and in the same order
C33_MigratedScene ==
  [][(StLoad /\ hist'.migrated) =>
       /\ Len(state'.scenes) = 1
       /\ state'.scenes[1].id = "scene_migrated"
       /\ state'.scenes[1].name = <<"C", "u", "r", "r", "e", "n", "t", " ", "S", "c", "e", "n", "e">>
       /\ state'.scenes[1].createdAt = now
       /\ state'.scenes[1].updatedAt = now
       /\ state'.currentSceneId = "scene_migrated"
       /\ state'.settings = DEFAULT_SETTINGS
       /\ state'.scenes[1].vitals = storage[KEY_V1].doc.vitals]_vars

\* the legacy blob with two entries was migrated after the clock had advanced
C33_Witness ==
  /\ Loaded /\ hist.migrated
  /\ hist.pre[KEY_V1] = Json(LegacyA)
  /\ Len(state.scenes[1].vitals) = 2
  /\ state.scenes[1].createdAt = 2

V2Valid(blob) == blob.kind = "json" /\ blob.doc.truthy /\ blob.doc.scenesIsArray

\* C34: when the current-schema blob is present and structurally valid, load() returns
\* its currentSceneId and its scenes unchanged, and settings in which what is missing
\* is filled from the defaults: the settings returned hold a theme and all ten
\* thresholds
C34_SettingsFilled ==
  (Loaded /\ V2Valid(hist.pre[KEY_V2])) =>
    /\ state.currentSceneId = hist.pre[KEY_V2].doc.currentSceneId
    /\ state.scenes = hist.pre[KEY_V2].doc.scenes
    /\ state.settings.theme \in {"light", "dark"}
    /\ DOMAIN state.settings.thresholds = ThresholdKeys

(***************************************************************************)
(* Properties of the layout of exportPdf                                   *)
(***************************************************************************)
\* C35: a page break is inserted before any line whose cursor position exceeds the
\* content-height limit: no section header, no-vitals line, entry line or wrapped
\* notes line is written at a position beyond the limit
C35_NoLineBeyondLimit ==
  api = "exportPdf" =>
    \A i \in 1..Len(ret.written) :
      ret.written[i].y + (ret.written[i].lines - 1) * LineAdvance <= PageLimit

\* C36: a transition applied to the active scene (add, edit or remove a firefighter,
\* set a status, select a firefighter, append vitals, clear the scene) leaves every
\* other scene of the list as it was, updatedAt included, and leaves currentSceneId
\* and the settings as they were; clearing the active scene empties its roster, its
\* vitals and its selection and nothing else
C36_OtherScenesUntouched ==
  [][SceneTransition =>
       /\ Len(state'.scenes) = Len(state.scenes)
       /\ \A i \in 1..Len(state.scenes) :
            /\ state'.scenes[i].id = state.scenes[i].id
            /\ state.scenes[i].id # state.currentSceneId => state'.scenes[i] = state.scenes[i]
            /\ (clearCurrentSceneOf(TRUE) /\ state.scenes[i].id = state.currentSceneId) =>
                 state'.scenes[i] = [state.scenes[i] EXCEPT !.firefighters = <<>>,
                                                            !.vitals = <<>>,
                                                            !.selectedFirefighterId = Null,
                                                            !.updatedAt = now]
       /\ state'.currentSceneId = state.currentSceneId
       /\ state'.settings = state.settings]_vars

\* a firefighter was added to a scene started beside the migrated scene, which still
\* has its two firefighters and its two entries
C36_Witness ==
  /\ Len(state.scenes) = 2
  /\ state.currentSceneId = state.scenes[1].id
  /\ state.scenes[1].firefighters # <<>>
  /\ state.scenes[2].id = "scene_migrated"
  /\ Len(state.scenes[2].firefighters) = 2 /\ Len(state.scenes[2].vitals) = 2

(***************************************************************************)
(* Properties of the references between entries and rosters                *)
(***************************************************************************)
NoDanglingEntry(s) ==
  \A i \in 1..Len(s.scenes) :
    \A j \in 1..Len(s.scenes[i].vitals) :
      s.scenes[i].vitals[j].firefighterId \in Ids(s.scenes[i].firefighters)

\* C37: after any sequence of operations of the page, every vitals entry of every
\* scene references a firefighter of the same scene's roster; submitVitals appends
\* only an entry of the selected firefighter of the active scene, and changes nothing
\* when no firefighter is selected or no scene is active
C37_EntriesReferenceRoster ==
  /\ [](mounted => NoDanglingEntry(state))
  /\ [][\A form \in VitalsForms :
          submitVitalsOf(form) =>
            IF IsDefined(selected(state))
            THEN LET new == Val(currentScene(state'))
                 IN /\ Len(new.vitals) = Len(Val(currentScene(state)).vitals) + 1
                    /\ new.vitals[Len(new.vitals)].firefighterId = Val(selected(state)).id
            ELSE state' = state /\ storage' = storage]_vars

\* on a device that held nothing, a scene was started, two firefighters were added and
\* vitals were submitted for the one selected
C37_Witness ==
  /\ hist.migrations = 0
  /\ IsDefined(currentScene(state))
  /\ Len(Val(currentScene(state)).firefighters) = 2
  /\ Val(currentScene(state)).vitals # <<>>

(***************************************************************************)
(* Properties relating the report to the table                             *)
(***************************************************************************)
Dangling(v) == WithId(v.firefighterId) = {}

\* the entry lines of the report: the ids of the entries they print, section by section
EntryLines(sections) ==
  UNION {{<<i, j>> : j \in {k \in 1..Len(sections[i].lines) : sections[i].lines[k].kind = "entry"}} :
           i \in 1..Len(sections)}

\* C38: the report has entry lines only for entries whose firefighterId is in the
\* roster; an entry with a dangling firefighterId has a row in the table and a line
\* in no section; so the report has as many entry lines as the table has rows
\* exactly when no entry is dangling
C38_ReportVersusTable ==
  api = "exportPdf" =>
    LET rows == exportCsv(Roster, Entries)
        printed == {ret.sections[p[1]].lines[p[2]].of : p \in EntryLines(ret.sections)}
    IN /\ \A i \in 1..Len(Entries) :
            /\ Entries[i].id \in printed => ~Dangling(Entries[i])
            /\ Dangling(Entries[i]) => Len(rows) = Len(Entries) /\ Entries[i].id \notin printed
       /\ Cardinality(EntryLines(ret.sections)) = Len(rows)
            <=> \A i \in 1..Len(Entries) : ~Dangling(Entries[i])

(***************************************************************************)
(* Properties of the thresholds held in the settings                       *)
(***************************************************************************)
\* C39: in every reachable state, also after edits of the threshold fields (empty,
\* non-numeric or partial input) followed by a save and a reload, each of the ten
\* thresholds in the settings is a finite number
C39_ThresholdsFinite ==
  \A k \in ThresholdKeys : state.settings.thresholds[k].t = "num"

====
